---- MODULE Spec2Model ----
(***************************************************************************)
(* State-machine model of the admin console front end:                     *)
(*   - the shared request client (web/apps/web-ele/src/api/request.ts),    *)
(*   - the menu-tree editor component (menu/modules/menu-tree.vue),        *)
(*   - the role-permission tree component (unnamed/part_007).              *)
(* JavaScript runs one handler at a time; an async handler is cut at each  *)
(* await into steps, and a backend round trip is a request in flight that  *)
(* the environment answers with a success or an error.                     *)
(***************************************************************************)
EXTENDS Integers, Sequences, FiniteSets, TLC

(***************************************************************************)
(* Bounds of the model.                                                    *)
(***************************************************************************)
\* number of calls the screens make through the shared request client
MaxReq == 2
\* nesting of client.request calls of one call (the original and its re-issues)
MaxDepth == 2
\* number of fresh tokens the backend issues
MaxTok == 3
\* number of menus the backend can hold (menu-tree editor)
MaxMenu == 2
\* number of distinct non-blank search keywords
MaxKey == 2
\* number of awaiting handler invocations of the menu tree, the mount included
MaxTask == 3
\* number of menus in the tree of the role-permission component
MaxRoleMenu == 4
\* number of roles shown in the role-permission component
MaxRole == 2
\* number of menus of the tree the backend returns for a role
MaxPermMenu == 2
\* number of backend requests the role-permission component sends
MaxRoleCall == 3
MaxPart == 2
MaxLogTask == 2
MaxRow == 2

(***************************************************************************)
(* JavaScript values: null, undefined and strings.  A string is            *)
(* <<"string", n>>: n = 0 is the empty string '', n >= 1 is the n-th       *)
(* distinct token the backend issued.                                      *)
(***************************************************************************)
Null == <<"null">>
Undef == <<"undefined">>
Str(n) == <<"string", n>>
Truthy(v) == v[1] = "string" /\ v[2] # 0

(***************************************************************************)
(* VARIABLES of the request client.                                        *)
(***************************************************************************)
VARIABLES
  accessToken,        \* accessStore.accessToken
  refreshToken,       \* accessStore.refreshToken
  isAccessChecked,    \* accessStore.isAccessChecked
  loginExpired,       \* accessStore.loginExpired
  loginExpiredMode,   \* preferences.app.loginExpiredMode
  isRefreshing,       \* client.isRefreshing
  refreshTokenQueue,  \* client.refreshTokenQueue: the calls waiting for a refresh
  reqs,               \* the calls made through the client, by slot
  nextTok,            \* the number of the next token the backend issues
  cleared,            \* history: the tokens doReAuthenticate has cleared
  lastReauth,         \* history: the run of doReAuthenticate in the last step
  lastRefresh,        \* history: the run of doRefreshToken going on or just ended
  lastError,          \* history: the error response handled in the last step
  lastToast           \* history: the run of the error callback in the last step

reqVars == <<accessToken, refreshToken, isAccessChecked, loginExpired,
             loginExpiredMode, isRefreshing, refreshTokenQueue, reqs, nextTok,
             cleared, lastReauth, lastRefresh, lastError, lastToast>>

(***************************************************************************)
(* VARIABLES of the menu-tree component (menu-tree.vue).  A menu is its id *)
(* 1..MaxMenu; 0 stands for undefined.                                     *)
(***************************************************************************)
VARIABLES
  mounted,            \* onMounted has run
  treeData,           \* treeData: the ids of the nodes of the loaded tree
  loading,            \* loading
  selectedMenuId,     \* selectedMenuId (0: undefined)
  searchKeyword,      \* searchKeyword (0: blank)
  expandedMenuIds,    \* expandedMenuIds
  searchResults,      \* searchResults: the ids of the result nodes
  isSearching,        \* isSearching
  searchTimer,        \* the keyword of the pending debounce timer (0: none)
  tasks,              \* the handler invocations that are awaiting, by slot
  pending,            \* the backend requests in flight of each invocation
  emitted,            \* the last select event emitted to the parent
  notice,             \* the ElMessage shown in the last step
  finished            \* history: the handler invocation that ended in the last step

menuVars == <<mounted, treeData, loading, selectedMenuId, searchKeyword,
              expandedMenuIds, searchResults, isSearching, searchTimer, tasks,
              pending, emitted, notice, finished>>

(***************************************************************************)
(* VARIABLES of the role-permission component.  Its treeData and           *)
(* selectedMenuId carry the prefix role to tell them from the menu tree's. *)
(***************************************************************************)
VARIABLES
  roleTreeData,       \* treeData: the menu tree of the role, nested nodes
  selectedMenuIds,    \* selectedMenuIds
  roleSelectedMenuId, \* selectedMenuId: the menu whose permissions show (0: undefined)
  lastToggle          \* history: the call of toggleMenu in the last step

\* the role, the loads and the save of the role-permission component
VARIABLES
  role,                 \* props.role?.id (0: undefined)
  roleLoading,          \* loading
  saving,               \* saving
  loadingPermissions,   \* loadingPermissions
  roleExpandedMenuIds,  \* expandedMenuIds
  selectedPermissions,  \* selectedPermissions
  menuPermissionsCache, \* menuPermissionsCache: cached menu -> its permission ids
  roleReqs,             \* the backend requests of the component in flight
  roleCalls,            \* the number of backend requests the component has sent
  loadedFor,            \* history: the roles whose answers filled the state
  lastSave,             \* history: the call of saveSelection in the last step
  shownChecked          \* the checked property of the rendered permission checkboxes

permVars == <<role, roleLoading, saving, loadingPermissions,
              roleExpandedMenuIds, selectedPermissions, menuPermissionsCache,
              roleReqs, roleCalls, loadedFor, lastSave, shownChecked>>

roleVars == <<roleTreeData, selectedMenuIds, roleSelectedMenuId, lastToggle,
              permVars>>

(***************************************************************************)
(* VARIABLES of the scheduler job form modal (unnamed/part_004).           *)
(***************************************************************************)
VARIABLES
  jobModal,           \* the modal: "closed", "open" or "locked" (submitting)
  formData,           \* formData: the job the modal was opened with
  triggerType,        \* triggerType
  formValues,         \* the values held by the form (formApi)
  jobEdited,          \* history: the user has changed a form value since the opening
  submitted           \* history: the confirm of the last step

jobVars == <<jobModal, formData, triggerType, formValues, jobEdited, submitted>>

(***************************************************************************)
(* VARIABLES of the operation-log page (operation-log/data.ts).            *)
(***************************************************************************)
VARIABLES
  selectedRows,       \* selectedRows: the ids of the checked rows
  logTasks,           \* the delete handlers that are waiting, by slot
  logPending,         \* the backend requests in flight of each handler
  logEvent            \* history: what the handler of the last step did

logVars == <<selectedRows, logTasks, logPending, logEvent>>

pageVars == <<jobVars, logVars>>

vars == <<reqVars, menuVars, roleVars, pageVars>>

Req == 1..MaxReq
Menus == 1..MaxMenu
Keywords == 1..MaxKey
Task == 1..MaxTask
RoleMenus == 1..MaxRoleMenu

(***************************************************************************)
(* The state of a component before it is used.                             *)
(***************************************************************************)
IdleTask == [kind |-> "none", pc |-> "done", arg |-> 0, saved |-> {},
             before |-> {}]
DoneTask == [kind |-> "over", pc |-> "done", arg |-> 0, saved |-> {},
             before |-> {}]
NoSelect == [sent |-> FALSE, menu |-> 0, autoEdit |-> FALSE]
NoFinish == [kind |-> "none"]
NoToggle == [ran |-> FALSE]

MenuTreeSetup ==
  /\ mounted = FALSE
  /\ treeData = {}
  /\ loading = FALSE
  /\ selectedMenuId = 0
  /\ searchKeyword = 0
  /\ expandedMenuIds = {}
  /\ searchResults = {}
  /\ isSearching = FALSE
  /\ searchTimer = 0
  /\ tasks = [t \in Task |-> IdleTask]
  /\ pending = [t \in Task |-> {}]
  /\ emitted = NoSelect
  /\ notice = "none"
  /\ finished = NoFinish

NoJob == [id |-> 0, trigger_type |-> "cron", interval_seconds |-> 0]
NoValues == [trigger_type |-> "cron", interval_seconds |-> 0,
             interval_unit |-> "none"]
NoSubmit == [ran |-> FALSE]
IdleLogTask == [kind |-> "none", pc |-> "done", ids |-> {}]
NoLogEvent == [kind |-> "none"]

JobFormSetup ==
  /\ jobModal = "closed"
  /\ formData = NoJob
  /\ triggerType = "cron"
  /\ formValues = NoValues
  /\ jobEdited = FALSE
  /\ submitted = NoSubmit

LogPageSetup ==
  /\ selectedRows = {}
  /\ logTasks = [t \in 1..MaxLogTask |-> IdleLogTask]
  /\ logPending = [t \in 1..MaxLogTask |-> {}]
  /\ logEvent = NoLogEvent

PageSetup == JobFormSetup /\ LogPageSetup

NoSave == [ran |-> FALSE]
NothingLoaded == [tree |-> 0, cache |-> <<>>, perms |-> {}]

PermissionSetup ==
  /\ role = 0
  /\ roleLoading = FALSE
  /\ saving = FALSE
  /\ loadingPermissions = FALSE
  /\ roleExpandedMenuIds = {}
  /\ selectedPermissions = {}
  /\ menuPermissionsCache = <<>>
  /\ roleReqs = {}
  /\ roleCalls = 0
  /\ loadedFor = NothingLoaded
  /\ lastSave = NoSave
  /\ shownChecked = <<>>

RoleTreeSetup ==
  /\ roleTreeData = <<>>
  /\ selectedMenuIds = {}
  /\ roleSelectedMenuId = 0
  /\ lastToggle = NoToggle
  /\ PermissionSetup

(***************************************************************************)
(* preferences.ts: the application's override of the refresh-token switch. *)
(***************************************************************************)
enableRefreshToken_Off == FALSE
enableRefreshToken == TRUE

(***************************************************************************)
(* request.ts, formatToken: `Bearer ${token}` for a truthy token, else     *)
(* null.  The header "Bearer <n-th token>" is <<"Bearer", n>>.             *)
(***************************************************************************)
formatToken_NullOnly(token) == IF token = Null THEN Null ELSE <<"Bearer", token[2]>>
formatToken(token) == IF Truthy(token) THEN <<"Bearer", token[2]>> ELSE Null

(***************************************************************************)
(* The access store and the history of doReAuthenticate, as one record, so *)
(* that the steps of one handler compose.                                  *)
(***************************************************************************)
CurStore ==
  [at |-> accessToken, rt |-> refreshToken, expired |-> loginExpired,
   checked |-> isAccessChecked, cleared |-> cleared,
   reauth |-> [ran |-> FALSE]]

SetStore(s) ==
  /\ accessToken' = s.at
  /\ refreshToken' = s.rt
  /\ loginExpired' = s.expired
  /\ isAccessChecked' = s.checked
  /\ cleared' = s.cleared
  /\ lastReauth' = s.reauth

(***************************************************************************)
(* request.ts, doReAuthenticate, up to its only await (authStore.logout()).*)
(* branch: "return" (no token was held), "expired" (the login-expired      *)
(* modal) or "logout" (logout was called and is awaited).                  *)
(***************************************************************************)
hadToken(s) == Truthy(s.at) \/ Truthy(s.rt)

\* the store after doReAuthenticate set the access token to at1 and took
\* `branch`, with the history of the run
Reauthenticated(s, mode, at1, branch) ==
  LET s1 == [s EXCEPT !.at = at1,
                      !.cleared = IF Truthy(s.at) /\ at1 = Null
                                    THEN @ \cup {s.at[2]} ELSE @,
                      !.expired = IF branch = "expired" THEN TRUE ELSE @]
  IN [store |-> [s1 EXCEPT !.reauth =
                    [ran |-> TRUE, had |-> hadToken(s), mode |-> mode,
                     checked |-> s.checked,
                     logouts |-> IF branch = "logout" THEN 1 ELSE 0,
                     expiredSet |-> (branch = "expired"),
                     tokenAfter |-> s1.at]],
      branch |-> branch]

\* mutant: the access token is not cleared
doReAuthenticate_KeepToken(s, mode) ==
  Reauthenticated(s, mode, s.at,
    IF ~hadToken(s) THEN "return"
    ELSE IF mode = "modal" /\ s.checked THEN "expired"
    ELSE "logout")
\* mutant: no early return when no token was held
doReAuthenticate_NoGuard(s, mode) ==
  Reauthenticated(s, mode, Null,
    IF mode = "modal" /\ s.checked THEN "expired" ELSE "logout")
\* mutant: the modal is used whenever the mode is 'modal', checked or not
doReAuthenticate_ModalUnchecked(s, mode) ==
  Reauthenticated(s, mode, Null,
    IF ~hadToken(s) THEN "return"
    ELSE IF mode = "modal" THEN "expired"
    ELSE "logout")
doReAuthenticate(s, mode) ==
  Reauthenticated(s, mode, Null,
    IF ~hadToken(s) THEN "return"
    ELSE IF mode = "modal" /\ s.checked THEN "expired"
    ELSE "logout")

(***************************************************************************)
(* authStore.logout() (the store is not part of the inspected sources):    *)
(* once the awaited logout has finished the stores are reset.              *)
(***************************************************************************)
authStoreLogout(s) ==
  [s EXCEPT !.at = Null, !.rt = Null, !.expired = FALSE, !.checked = FALSE]

(***************************************************************************)
(* The body of a refresh response (resp.data): the token as a string, an   *)
(* object with an accessToken and possibly a refreshToken, or nothing.     *)
(* Prop is JavaScript's data?.field.                                       *)
(***************************************************************************)
RefreshData(n) ==
  {[type |-> "string", value |-> Str(n)], [type |-> "undefined"]}
    \cup {[type |-> "object", accessToken |-> a, refreshToken |-> f] :
            a \in {Undef, Str(n)}, f \in {Undef, Str(n)}}

Prop(data, field) == IF data.type = "object" THEN data[field] ELSE Undef

(***************************************************************************)
(* request.ts, doRefreshToken before its await: without a refresh token it *)
(* runs doReAuthenticate and throws, else it calls refreshTokenApi.        *)
(***************************************************************************)
\* mutant: the refresh request is sent although no refresh token is stored
doRefreshTokenStart_NoCheck(s, mode) ==
  [send |-> TRUE, reauth |-> FALSE, store |-> s, branch |-> "none"]
doRefreshTokenStart(s, mode) ==
  IF ~Truthy(s.rt)
    THEN LET re == doReAuthenticate(s, mode)
         IN [send |-> FALSE, reauth |-> TRUE, store |-> re.store,
             branch |-> re.branch]
    ELSE [send |-> TRUE, reauth |-> FALSE, store |-> s, branch |-> "none"]

(***************************************************************************)
(* request.ts, doRefreshToken after its await:                             *)
(*   newToken = resp.data?.accessToken || '';  setAccessToken(newToken);   *)
(*   setRefreshToken(resp.data.refreshToken) when data is an object with   *)
(*   one;  return newToken.                                                *)
(***************************************************************************)
newTokenOf(data) ==
  IF Truthy(Prop(data, "accessToken")) THEN Prop(data, "accessToken") ELSE Str(0)

doRefreshTokenFinish(s, data) ==
  [store |-> [s EXCEPT !.at = newTokenOf(data),
                       !.rt = IF data.type = "object"
                                 /\ Truthy(Prop(data, "refreshToken"))
                                THEN Prop(data, "refreshToken") ELSE @],
   newToken |-> newTokenOf(data)]

(***************************************************************************)
(* request.ts, the callback given to errorMessageResponseInterceptor.      *)
(* Texts are strings; '' stands for every falsy value of a field.          *)
(***************************************************************************)
Msg429 == "too many requests, retry later"
Msg403 == "no permission to access this resource"
Msg401 == "authentication failed, log in again"

Or(a, b) == IF a # "" THEN a ELSE b

\* mutant: the message passed in wins over the backend payload
errorMessage_MsgFirst(msg, status, responseData) ==
  Or(msg, Or(responseData.message, Or(responseData.error,
     Or(responseData.detail, responseData.msg))))
\* mutant: the status default replaces the chosen text
errorMessage_StatusFirst(msg, status, responseData) ==
  IF status = 429 THEN Msg429
  ELSE IF status = 403 THEN Msg403
  ELSE IF status = 401 THEN Msg401
  ELSE Or(responseData.message, Or(responseData.error,
       Or(responseData.detail, Or(responseData.msg, msg))))
errorMessage(msg, status, responseData) ==
  LET m0 == Or(responseData.message, Or(responseData.error,
            Or(responseData.detail, Or(responseData.msg, msg))))
      m1 == IF status = 429 THEN Or(m0, Msg429) ELSE m0
      m2 == IF status = 403 THEN Or(m1, Msg403) ELSE m1
      m3 == IF status = 401 THEN Or(m2, Msg401) ELSE m2
  IN m3

\* the calls of ElMessage.error the callback makes, in order
ElMessageError(msg, status, responseData) ==
  IF errorMessage(msg, status, responseData) # ""
    THEN <<Or(errorMessage(msg, status, responseData), msg)>>
    ELSE <<>>

(***************************************************************************)
(* Error responses.  Status 0 is an error without a response (a network    *)
(* error or a thrown Error): status and payload are undefined.             *)
(***************************************************************************)
Statuses == {0, 401, 403, 429, 500}

ResponseData(status) ==
  IF status = 0
    THEN {[message |-> "", error |-> "", detail |-> "", msg |-> ""]}
    ELSE [message : {"", "data.message"}, error : {"", "data.error"},
          detail : {"", "data.detail"}, msg : {"", "data.msg"}]

\* the payloads the model of the client draws from: none, or a message
BackendData(status) ==
  {d \in ResponseData(status) : d.error = "" /\ d.detail = "" /\ d.msg = ""}

\* the message errorMessageResponseInterceptor passes to the callback
LibMsg(status) ==
  CASE status = 0 -> "network error"
    [] status = 401 -> "unauthorized"
    [] status = 403 -> "forbidden"
    [] OTHER -> "internal server error"

(***************************************************************************)
(* A call through the client, by slot.                                     *)
(*   st     "idle" (not yet made), "sent" (a request is in flight),        *)
(*          "queued" (waiting in refreshTokenQueue), "refreshing" (its     *)
(*          handler awaits refreshTokenApi), "reauth" (its handler awaits  *)
(*          logout), "done" (settled)                                      *)
(*   auth   the Authorization header of the request in flight              *)
(*   retry  config.__isRetryRequest                                        *)
(*   depth  the number of nested client.request calls of this call         *)
(*   k      what the handler awaiting logout does next                     *)
(*   err    the status of the error that handler holds                     *)
(*   tok, clr        history: the stored token and the cleared tokens when *)
(*          the request interceptor ran                                    *)
(***************************************************************************)
IdleSlot ==
  [st |-> "idle", auth |-> Null, retry |-> FALSE, depth |-> 0, k |-> "none",
   err |-> 0, tok |-> Null, clr |-> {}]

DoneSlot == [IdleSlot EXCEPT !.st = "done"]

\* request.ts, the request interceptor, followed by the dispatch of the request
RequestInterceptor(slot, s) ==
  [slot EXCEPT !.st = "sent", !.auth = formatToken(s.at), !.depth = @ + 1,
               !.tok = s.at, !.clr = s.cleared]

InQueue(r) == \E i \in 1..Len(refreshTokenQueue) : refreshTokenQueue[i] = r

\* every queued call is re-issued through the client
ReissueQueue(rs, s) ==
  [x \in Req |-> IF InQueue(x) THEN RequestInterceptor(rs[x], s) ELSE rs[x]]

NoReauth == [ran |-> FALSE]
NoRefresh == [ran |-> FALSE, outcome |-> "none"]
NoError == [ran |-> FALSE]
NoToast == [ran |-> FALSE]

InitReq ==
  /\ PageSetup
  /\ accessToken \in {Null, Str(1)}
  /\ refreshToken \in {Null, Str(1)}
  /\ isAccessChecked \in BOOLEAN
  /\ loginExpired = FALSE
  /\ loginExpiredMode \in {"page", "modal"}
  /\ isRefreshing = FALSE
  /\ refreshTokenQueue = <<>>
  /\ reqs = [r \in Req |-> IdleSlot]
  /\ nextTok = 2
  /\ cleared = {}
  /\ lastReauth = NoReauth
  /\ lastRefresh = NoRefresh
  /\ lastError = NoError
  /\ lastToast = NoToast
  /\ MenuTreeSetup
  /\ RoleTreeSetup

(***************************************************************************)
(* The history variables describe the step just taken: a step in which a   *)
(* function did not run resets its record.  The record of doRefreshToken   *)
(* stays while the refresh is awaited.                                     *)
(***************************************************************************)
RefreshGoingOn == IF lastRefresh.outcome = "pending" THEN lastRefresh ELSE NoRefresh

(***************************************************************************)
(* A screen calls the client: the request interceptor sets the headers and *)
(* the request is sent.  Slots are taken in order.                         *)
(***************************************************************************)
Request(r) ==
  /\ UNCHANGED <<menuVars, roleVars, pageVars>>
  /\ reqs[r].st = "idle"
  /\ \A x \in Req : x < r => reqs[x].st # "idle"
  /\ reqs' = [reqs EXCEPT ![r] = RequestInterceptor(@, CurStore)]
  /\ lastReauth' = NoReauth /\ lastRefresh' = RefreshGoingOn
  /\ lastError' = NoError /\ lastToast' = NoToast
  /\ UNCHANGED <<accessToken, refreshToken, isAccessChecked, loginExpired,
                 loginExpiredMode, isRefreshing, refreshTokenQueue, nextTok,
                 cleared>>

Success(r) ==
  /\ UNCHANGED <<menuVars, roleVars, pageVars>>
  /\ reqs[r].st = "sent"
  /\ reqs' = [reqs EXCEPT ![r] = DoneSlot]
  /\ lastReauth' = NoReauth /\ lastRefresh' = RefreshGoingOn
  /\ lastError' = NoError /\ lastToast' = NoToast
  /\ UNCHANGED <<accessToken, refreshToken, isAccessChecked, loginExpired,
                 loginExpiredMode, isRefreshing, refreshTokenQueue, nextTok,
                 cleared>>

(***************************************************************************)
(* The error reaches errorMessageResponseInterceptor, which calls the      *)
(* callback with its message and rejects; the call is settled.             *)
(***************************************************************************)
Reject(r, rs, status) ==
  \E msg \in {"", LibMsg(status)}, data \in BackendData(status) :
    /\ reqs' = [rs EXCEPT ![r] = DoneSlot]
    /\ lastToast' = [ran |-> TRUE, msg |-> msg, status |-> status,
                     data |-> data,
                     shown |-> ElMessageError(msg, status, data)]

(***************************************************************************)
(* authenticateResponseInterceptor, the catch of a failed refresh: the     *)
(* queued calls are called back with '' and re-issued, doReAuthenticate    *)
(* runs, the refresh error is thrown on and isRefreshing is reset.         *)
(***************************************************************************)
RefreshFailed(r, s, rs, status) ==
  LET re == doReAuthenticate(s, loginExpiredMode)
      rs1 == ReissueQueue(rs, re.store)
  IN /\ refreshTokenQueue' = <<>>
     /\ SetStore(re.store)
     /\ IF re.branch = "logout"
          THEN /\ reqs' = [rs1 EXCEPT ![r].st = "reauth", ![r].k = "catch",
                                      ![r].err = status]
               /\ isRefreshing' = TRUE
               /\ lastToast' = NoToast
          ELSE /\ isRefreshing' = FALSE
               /\ Reject(r, rs1, status)

(***************************************************************************)
(* An error response.  defaultResponseInterceptor has no error handler;    *)
(* authenticateResponseInterceptor throws on every error that is not a 401 *)
(* and errorMessageResponseInterceptor shows it.                           *)
(***************************************************************************)
ErrorRecord(r, status, did) ==
  [ran |-> TRUE, status |-> status, retry |-> reqs[r].retry,
   refreshing |-> isRefreshing, hadRefresh |-> Truthy(refreshToken),
   did |-> did]

ErrorOther(r, status) ==
  /\ UNCHANGED <<menuVars, roleVars, pageVars>>
  /\ reqs[r].st = "sent"
  /\ status # 401
  /\ lastError' = ErrorRecord(r, status, "toast")
  /\ Reject(r, reqs, status)
  /\ lastReauth' = NoReauth /\ lastRefresh' = RefreshGoingOn
  /\ UNCHANGED <<accessToken, refreshToken, isAccessChecked, loginExpired,
                 loginExpiredMode, isRefreshing, refreshTokenQueue, nextTok,
                 cleared>>

(***************************************************************************)
(* A 401 when the refresh is disabled or the request is already a retry:   *)
(* doReAuthenticate, then the error is thrown on.                          *)
(***************************************************************************)
Error401Reauth(r) ==
  /\ UNCHANGED <<menuVars, roleVars, pageVars>>
  /\ reqs[r].st = "sent"
  /\ ~enableRefreshToken \/ reqs[r].retry
  /\ lastError' = ErrorRecord(r, 401, "reauth")
  /\ LET re == doReAuthenticate(CurStore, loginExpiredMode)
     IN /\ SetStore(re.store)
        /\ IF re.branch = "logout"
             THEN /\ reqs' = [reqs EXCEPT ![r].st = "reauth",
                                          ![r].k = "throw", ![r].err = 401]
                  /\ lastToast' = NoToast
             ELSE Reject(r, reqs, 401)
  /\ lastRefresh' = RefreshGoingOn
  /\ UNCHANGED <<loginExpiredMode, isRefreshing, refreshTokenQueue, nextTok>>

(***************************************************************************)
(* A 401 while a refresh is running: the call waits in refreshTokenQueue.  *)
(***************************************************************************)
Error401Queue(r) ==
  /\ UNCHANGED <<menuVars, roleVars, pageVars>>
  /\ reqs[r].st = "sent"
  /\ enableRefreshToken /\ ~reqs[r].retry
  /\ isRefreshing
  /\ reqs[r].depth < MaxDepth
  /\ lastError' = ErrorRecord(r, 401, "queued")
  /\ reqs' = [reqs EXCEPT ![r].st = "queued"]
  /\ refreshTokenQueue' = Append(refreshTokenQueue, r)
  /\ lastReauth' = NoReauth /\ lastRefresh' = RefreshGoingOn
  /\ lastToast' = NoToast
  /\ UNCHANGED <<accessToken, refreshToken, isAccessChecked, loginExpired,
                 loginExpiredMode, isRefreshing, nextTok, cleared>>

(***************************************************************************)
(* A 401 otherwise: isRefreshing and __isRetryRequest are set and          *)
(* doRefreshToken is called.                                               *)
(***************************************************************************)
Error401Refresh(r) ==
  /\ UNCHANGED <<menuVars, roleVars, pageVars>>
  /\ reqs[r].st = "sent"
  /\ enableRefreshToken /\ ~reqs[r].retry
  /\ ~isRefreshing
  /\ reqs[r].depth < MaxDepth
  /\ LET start == doRefreshTokenStart(CurStore, loginExpiredMode)
         rs == [reqs EXCEPT ![r].retry = TRUE]
         rec == [ran |-> TRUE, had |-> Truthy(refreshToken),
                 sent |-> start.send, reauth |-> start.reauth,
                 outcome |-> "pending", data |-> [type |-> "undefined"],
                 result |-> Undef, stored |-> Undef]
     IN /\ lastError' = ErrorRecord(r, 401,
                          IF start.send THEN "refresh" ELSE "reauth")
        /\ IF start.send
             THEN \* await refreshTokenApi(accessStore.refreshToken)
                  /\ reqs' = [rs EXCEPT ![r].st = "refreshing"]
                  /\ isRefreshing' = TRUE
                  /\ lastRefresh' = rec
                  /\ SetStore(start.store)
                  /\ lastToast' = NoToast
                  /\ UNCHANGED refreshTokenQueue
             ELSE IF start.branch = "logout"
               THEN \* doRefreshToken awaits doReAuthenticate, which awaits logout
                    /\ reqs' = [rs EXCEPT ![r].st = "reauth",
                                          ![r].k = "missing"]
                    /\ SetStore(start.store)
                    /\ isRefreshing' = TRUE
                    /\ lastRefresh' = rec
                    /\ lastToast' = NoToast
                    /\ UNCHANGED refreshTokenQueue
               ELSE \* throw new Error('Refresh token is missing')
                    /\ lastRefresh' = [rec EXCEPT !.outcome = "throw"]
                    /\ RefreshFailed(r, start.store, rs, 0)
  /\ UNCHANGED <<loginExpiredMode, nextTok>>

(***************************************************************************)
(* The refresh request succeeds: doRefreshToken stores and returns the new *)
(* token; the interceptor calls back the queued calls, which are re-issued *)
(* through the client, re-issues the failed request and resets             *)
(* isRefreshing.                                                           *)
(***************************************************************************)
RefreshSuccess(r, data) ==
  /\ UNCHANGED <<menuVars, roleVars, pageVars>>
  /\ reqs[r].st = "refreshing"
  /\ nextTok <= MaxTok
  /\ LET fin == doRefreshTokenFinish(CurStore, data)
     IN /\ SetStore(fin.store)
        /\ lastRefresh' = [lastRefresh EXCEPT !.outcome = "return",
                                              !.data = data,
                                              !.result = fin.newToken,
                                              !.stored = fin.store.at]
        /\ reqs' = [ReissueQueue(reqs, fin.store) EXCEPT
                      ![r] = RequestInterceptor(@, fin.store)]
  /\ refreshTokenQueue' = <<>>
  /\ isRefreshing' = FALSE
  /\ nextTok' = nextTok + 1
  /\ lastError' = NoError /\ lastToast' = NoToast
  /\ UNCHANGED loginExpiredMode

(***************************************************************************)
(* The refresh request fails: doRefreshToken throws what refreshTokenApi   *)
(* threw.                                                                  *)
(***************************************************************************)
RefreshFailure(r, status) ==
  /\ UNCHANGED <<menuVars, roleVars, pageVars>>
  /\ reqs[r].st = "refreshing"
  /\ lastRefresh' = [lastRefresh EXCEPT !.outcome = "throw"]
  /\ RefreshFailed(r, CurStore, reqs, status)
  /\ lastError' = NoError
  /\ UNCHANGED <<loginExpiredMode, nextTok>>

(***************************************************************************)
(* The logout awaited by doReAuthenticate finishes and the handler that    *)
(* awaited it goes on.                                                     *)
(***************************************************************************)
LogoutDone(r) ==
  /\ UNCHANGED <<menuVars, roleVars, pageVars>>
  /\ reqs[r].st = "reauth"
  /\ LET s == authStoreLogout(CurStore)
     IN CASE reqs[r].k = "throw" ->
               /\ SetStore(s)
               /\ Reject(r, reqs, reqs[r].err)
               /\ lastRefresh' = RefreshGoingOn
               /\ UNCHANGED <<isRefreshing, refreshTokenQueue>>
          [] reqs[r].k = "missing" ->
               /\ lastRefresh' = [lastRefresh EXCEPT !.outcome = "throw"]
               /\ RefreshFailed(r, s, reqs, 0)
          [] reqs[r].k = "catch" ->
               /\ SetStore(s)
               /\ isRefreshing' = FALSE
               /\ Reject(r, reqs, reqs[r].err)
               /\ lastRefresh' = NoRefresh
               /\ UNCHANGED refreshTokenQueue
  /\ lastError' = NoError
  /\ UNCHANGED <<loginExpiredMode, nextTok>>

(***************************************************************************)
(* The error-message callback on its own: errorMessageResponseInterceptor  *)
(* calls it with a message and the error of a failed request.              *)
(***************************************************************************)
ErrorCallback(msg, status, data) ==
  /\ UNCHANGED <<menuVars, roleVars, pageVars>>
  /\ lastToast' = [ran |-> TRUE, msg |-> msg, status |-> status,
                   data |-> data, shown |-> ElMessageError(msg, status, data)]
  /\ UNCHANGED <<accessToken, refreshToken, isAccessChecked, loginExpired,
                 loginExpiredMode, isRefreshing, refreshTokenQueue, reqs,
                 nextTok, cleared, lastReauth, lastRefresh, lastError>>

NextToast ==
  \E status \in Statuses :
    \E data \in ResponseData(status), msg \in {"", LibMsg(status)} :
      ErrorCallback(msg, status, data)

SpecToast == InitReq /\ [][NextToast]_vars

NextReq ==
  \/ \E r \in Req : Request(r)
  \/ \E r \in Req : Success(r)
  \/ \E r \in Req, status \in Statuses : ErrorOther(r, status)
  \/ \E r \in Req : Error401Reauth(r)
  \/ \E r \in Req : Error401Queue(r)
  \/ \E r \in Req : Error401Refresh(r)
  \/ \E r \in Req, data \in RefreshData(nextTok) : RefreshSuccess(r, data)
  \/ \E r \in Req, status \in {0, 401, 500} : RefreshFailure(r, status)
  \/ \E r \in Req : LogoutDone(r)

SpecReq == InitReq /\ [][NextReq]_vars

(***************************************************************************)
(* The menu-tree component (menu-tree.vue).                                *)
(*                                                                         *)
(* The backend's menus form a forest: the menus with an odd id are roots   *)
(* and menu 2k is the child of menu 2k-1.  treeData and searchResults hold *)
(* the ids of their nodes.  What the backend answers is chosen by the      *)
(* environment.                                                            *)
(***************************************************************************)
ParentId(m) == IF m % 2 = 0 THEN m - 1 ELSE 0

\* the trees getAllMenuTreeApi can return: a child comes with its parent
MenuTrees == {T \in SUBSET Menus : \A m \in T : ParentId(m) # 0 => ParentId(m) \in T}

\* the results searchMenuApi can return for a keyword: keyword k names menu k
SearchHits(k) == {{}, {k} \cap Menus}

Min(S) == CHOOSE x \in S : \A y \in S : x <= y

\* treeData.value[0]
FirstMenu(T) == Min({m \in T : ParentId(m) = 0})

\* filteredTreeData
filteredTreeData ==
  IF searchKeyword # 0 /\ searchResults # {} THEN searchResults ELSE treeData

\* flattenedTree: a node is rendered when its parent is not shown or is expanded
flattenedTree ==
  {m \in filteredTreeData :
     ParentId(m) \in filteredTreeData => ParentId(m) \in expandedMenuIds}

search_RootsOnly(nodes, menuId) ==
  IF menuId \in nodes /\ ParentId(menuId) = 0 THEN menuId ELSE 0

\* findMenuById's search: the node with the id, at any depth, or 0 (null)
search(nodes, menuId) == IF menuId \in nodes THEN menuId ELSE 0

\* findMenuById
findMenuById(menuId) == search(treeData, menuId)

\* the confirmation dialog of ElMessageBox covers the page while it is open
DialogOpen == \E t \in Task : tasks[t].pc = "confirm"

\* the node list is the default slot of ElSkeleton: it is rendered, and its
\* nodes can be clicked, only while neither loading nor isSearching is set
TreeVisible == ~loading /\ ~isSearching

\* a handler invocation takes the lowest unused slot
FreeTask(t) ==
  /\ tasks[t].kind = "none"
  /\ \A x \in Task : x < t => tasks[x].kind # "none"

\* before is history: expandedMenuIds when the invocation called fetchMenuList
Await(t, kind, pc, arg, saved) ==
  [tasks EXCEPT ![t] = [kind |-> kind, pc |-> pc, arg |-> arg, saved |-> saved,
                        before |-> IF pc = "tree" THEN expandedMenuIds ELSE {}]]

Finish(t) == [tasks EXCEPT ![t] = DoneTask]

Select(menu, autoEdit) == [sent |-> TRUE, menu |-> menu, autoEdit |-> autoEdit]

\* history of an invocation that ends: what it was, at which await it ended,
\* and the answer it got
Ended(t, ok, data) ==
  [kind |-> tasks[t].kind, pc |-> tasks[t].pc, arg |-> tasks[t].arg,
   saved |-> tasks[t].saved, before |-> tasks[t].before, ok |-> ok,
   data |-> data]

(***************************************************************************)
(* onMounted: fetchMenuList(true) sets loading and awaits the full tree.   *)
(***************************************************************************)
Mount(t) ==
  /\ UNCHANGED <<reqVars, roleVars, pageVars>>
  /\ ~mounted
  /\ FreeTask(t)
  /\ mounted' = TRUE
  /\ loading' = TRUE
  /\ tasks' = Await(t, "mount", "tree", 0, {})
  /\ pending' = [pending EXCEPT ![t] = {"getAllMenuTreeApi"}]
  /\ notice' = "none"
  /\ finished' = NoFinish
  /\ UNCHANGED <<treeData, selectedMenuId, searchKeyword, expandedMenuIds,
                 searchResults, isSearching, searchTimer, emitted>>

(***************************************************************************)
(* toggleNodeExpanded and onMenuSelect, on a node the tree shows.          *)
(***************************************************************************)
toggleNodeExpanded(menu) ==
  /\ UNCHANGED <<reqVars, roleVars, pageVars>>
  /\ mounted /\ ~DialogOpen
  /\ TreeVisible
  /\ menu \in flattenedTree
  /\ expandedMenuIds' = IF menu \in expandedMenuIds
                          THEN expandedMenuIds \ {menu}
                          ELSE expandedMenuIds \cup {menu}
  /\ notice' = "none"
  /\ finished' = NoFinish
  /\ UNCHANGED <<mounted, treeData, loading, selectedMenuId, searchKeyword,
                 searchResults, isSearching, searchTimer, tasks, pending,
                 emitted>>

onMenuSelect(menu) ==
  /\ UNCHANGED <<reqVars, roleVars, pageVars>>
  /\ mounted /\ ~DialogOpen
  /\ TreeVisible
  /\ menu \in flattenedTree
  /\ selectedMenuId' = menu
  /\ emitted' = Select(menu, FALSE)
  /\ notice' = "none"
  /\ finished' = NoFinish
  /\ UNCHANGED <<mounted, treeData, loading, searchKeyword, expandedMenuIds,
                 searchResults, isSearching, searchTimer, tasks, pending>>

(***************************************************************************)
(* watch(searchKeyword): the pending timer is cleared; a blank keyword     *)
(* empties the results, any other keyword starts the 300 ms timer.         *)
(***************************************************************************)
SetKeyword(newVal) ==
  /\ UNCHANGED <<reqVars, roleVars, pageVars>>
  /\ mounted /\ ~DialogOpen
  /\ newVal # searchKeyword
  /\ searchKeyword' = newVal
  /\ IF newVal = 0
       THEN /\ searchResults' = {}
            /\ isSearching' = FALSE
            /\ searchTimer' = 0
       ELSE /\ searchTimer' = newVal
            /\ UNCHANGED <<searchResults, isSearching>>
  /\ notice' = "none"
  /\ finished' = NoFinish
  /\ UNCHANGED <<mounted, treeData, loading, selectedMenuId, expandedMenuIds,
                 tasks, pending, emitted>>

(***************************************************************************)
(* The timer fires: isSearching is set and searchMenuApi is awaited.       *)
(***************************************************************************)
SearchTimerFires(t) ==
  /\ UNCHANGED <<reqVars, roleVars, pageVars>>
  /\ searchTimer # 0
  /\ FreeTask(t)
  /\ isSearching' = TRUE
  /\ tasks' = Await(t, "search", "search", searchTimer, {})
  /\ pending' = [pending EXCEPT ![t] = {"searchMenuApi"}]
  /\ searchTimer' = 0
  /\ notice' = "none"
  /\ finished' = NoFinish
  /\ UNCHANGED <<mounted, treeData, loading, selectedMenuId, searchKeyword,
                 expandedMenuIds, searchResults, emitted>>

\* the answer to searchMenuApi: the results are stored and auto-expanded, an
\* error empties them; finally isSearching is reset
SearchResponse(t, ok, results) ==
  /\ UNCHANGED <<reqVars, roleVars, pageVars>>
  /\ tasks[t].pc = "search"
  /\ "searchMenuApi" \in pending[t]
  /\ pending' = [pending EXCEPT ![t] = @ \ {"searchMenuApi"}]
  /\ IF ok
       THEN /\ searchResults' = results
            /\ expandedMenuIds' = expandedMenuIds \cup results
       ELSE /\ searchResults' = {}
            /\ UNCHANGED expandedMenuIds
  /\ isSearching' = FALSE
  /\ tasks' = Finish(t)
  /\ finished' = Ended(t, ok, results)
  /\ notice' = "none"
  /\ UNCHANGED <<mounted, treeData, loading, selectedMenuId, searchKeyword,
                 searchTimer, emitted>>

(***************************************************************************)
(* refreshTree (exposed to the parent) and onMenuFormSuccess (the form     *)
(* modal's success callback, menuData.id = 0: no id): the expanded ids are *)
(* saved and fetchMenuList is awaited.                                     *)
(***************************************************************************)
refreshTree(t) ==
  /\ UNCHANGED <<reqVars, roleVars, pageVars>>
  /\ mounted
  /\ FreeTask(t)
  /\ loading' = TRUE
  /\ tasks' = Await(t, "refreshTree", "tree", 0, expandedMenuIds)
  /\ pending' = [pending EXCEPT ![t] = {"getAllMenuTreeApi"}]
  /\ notice' = "none"
  /\ finished' = NoFinish
  /\ UNCHANGED <<mounted, treeData, selectedMenuId, searchKeyword,
                 expandedMenuIds, searchResults, isSearching, searchTimer,
                 emitted>>

onMenuFormSuccess(t, id) ==
  /\ UNCHANGED <<reqVars, roleVars, pageVars>>
  /\ mounted /\ ~DialogOpen
  /\ FreeTask(t)
  /\ loading' = TRUE
  /\ tasks' = Await(t, "onMenuFormSuccess", "tree", id, expandedMenuIds)
  /\ pending' = [pending EXCEPT ![t] = {"getAllMenuTreeApi"}]
  /\ notice' = "none"
  /\ finished' = NoFinish
  /\ UNCHANGED <<mounted, treeData, selectedMenuId, searchKeyword,
                 expandedMenuIds, searchResults, isSearching, searchTimer,
                 emitted>>

(***************************************************************************)
(* onDeleteMenu: the confirmation dialog opens; on confirm deleteMenuApi   *)
(* is awaited, on cancel nothing happens.                                  *)
(***************************************************************************)
onDeleteMenu(t, menu) ==
  /\ UNCHANGED <<reqVars, roleVars, pageVars>>
  /\ mounted /\ ~DialogOpen
  /\ TreeVisible
  /\ menu \in flattenedTree
  /\ FreeTask(t)
  /\ tasks' = Await(t, "onDeleteMenu", "confirm", menu, {})
  /\ notice' = "none"
  /\ finished' = NoFinish
  /\ UNCHANGED <<mounted, treeData, loading, selectedMenuId, searchKeyword,
                 expandedMenuIds, searchResults, isSearching, searchTimer,
                 pending, emitted>>

DeleteCancelled(t) ==
  /\ UNCHANGED <<reqVars, roleVars, pageVars>>
  /\ tasks[t].pc = "confirm"
  /\ tasks' = Finish(t)
  /\ finished' = Ended(t, FALSE, {})
  /\ notice' = "none"
  /\ UNCHANGED <<mounted, treeData, loading, selectedMenuId, searchKeyword,
                 expandedMenuIds, searchResults, isSearching, searchTimer,
                 pending, emitted>>

\* mutant: the delete request is not awaited before the tree is fetched again
DeleteConfirmed_NoAwait(t) ==
  /\ UNCHANGED <<reqVars, roleVars, pageVars>>
  /\ tasks[t].pc = "confirm"
  /\ tasks' = [tasks EXCEPT ![t].pc = "tree", ![t].saved = expandedMenuIds,
                              ![t].before = expandedMenuIds]
  /\ pending' = [pending EXCEPT ![t] = {"deleteMenuApi", "getAllMenuTreeApi"}]
  /\ loading' = TRUE
  /\ notice' = "none"
  /\ finished' = NoFinish
  /\ UNCHANGED <<mounted, treeData, selectedMenuId, searchKeyword,
                 expandedMenuIds, searchResults, isSearching, searchTimer,
                 emitted>>

DeleteConfirmed(t) ==
  /\ UNCHANGED <<reqVars, roleVars, pageVars>>
  /\ tasks[t].pc = "confirm"
  /\ tasks' = [tasks EXCEPT ![t].pc = "delete"]
  /\ pending' = [pending EXCEPT ![t] = {"deleteMenuApi"}]
  /\ notice' = "none"
  /\ finished' = NoFinish
  /\ UNCHANGED <<mounted, treeData, loading, selectedMenuId, searchKeyword,
                 expandedMenuIds, searchResults, isSearching, searchTimer,
                 emitted>>

currentExpandedIds_Kept(menu) == expandedMenuIds

\* onDeleteMenu: currentExpandedIds, the expanded ids without the deleted menu
currentExpandedIds(menu) == expandedMenuIds \ {menu}

\* the answer to deleteMenuApi: on success the selection of the deleted menu
\* is cleared, the expanded ids are saved without it and fetchMenuList is
\* awaited; on an error the catch shows deleteError
DeleteResponse(t, ok) ==
  /\ UNCHANGED <<reqVars, roleVars, pageVars>>
  /\ tasks[t].pc = "delete"
  /\ "deleteMenuApi" \in pending[t]
  /\ IF ok
       THEN /\ notice' = "deleteSuccess"
            /\ IF selectedMenuId = tasks[t].arg
                 THEN /\ selectedMenuId' = 0
                      /\ emitted' = Select(0, FALSE)
                 ELSE UNCHANGED <<selectedMenuId, emitted>>
            /\ tasks' = [tasks EXCEPT ![t].pc = "tree",
                           ![t].saved = currentExpandedIds(tasks[t].arg),
                           ![t].before = expandedMenuIds]
            /\ loading' = TRUE
            /\ pending' = [pending EXCEPT ![t] = {"getAllMenuTreeApi"}]
            /\ finished' = NoFinish
       ELSE /\ notice' = "deleteError"
            /\ tasks' = Finish(t)
            /\ finished' = Ended(t, FALSE, {})
            /\ pending' = [pending EXCEPT ![t] = @ \ {"deleteMenuApi"}]
            /\ UNCHANGED <<selectedMenuId, emitted, loading>>
  /\ UNCHANGED <<mounted, treeData, searchKeyword, expandedMenuIds,
                 searchResults, isSearching, searchTimer>>

(***************************************************************************)
(* The answer to getAllMenuTreeApi inside fetchMenuList, and what the      *)
(* handler that awaited fetchMenuList does next.                           *)
(***************************************************************************)
restoredExpandedIds_Merged(saved, parent_id) ==
  IF parent_id # 0 THEN expandedMenuIds \cup saved \cup {parent_id}
                   ELSE expandedMenuIds \cup saved

\* expandedMenuIds.value = currentExpandedIds, then add(menuData.parent_id)
\* for a created menu that has a parent
restoredExpandedIds(saved, parent_id) ==
  IF parent_id # 0 THEN saved \cup {parent_id} ELSE saved

TreeResponse(t, ok, data) ==
  /\ UNCHANGED <<reqVars, roleVars, pageVars>>
  /\ tasks[t].pc = "tree"
  /\ "getAllMenuTreeApi" \in pending[t]
  /\ pending' = [pending EXCEPT ![t] = @ \ {"getAllMenuTreeApi"}]
  /\ loading' = FALSE
  /\ tasks' = Finish(t)
  /\ finished' = Ended(t, ok, data)
  /\ LET kind == tasks[t].kind
         id == tasks[t].arg
         newMenu == search(data, id)
     IN IF ~ok
          THEN \* finally of fetchMenuList; only onDeleteMenu catches the error
               /\ notice' = IF kind = "onDeleteMenu" THEN "deleteError" ELSE "none"
               /\ UNCHANGED <<treeData, selectedMenuId, expandedMenuIds, emitted>>
          ELSE /\ treeData' = data
               /\ notice' = "none"
               /\ CASE kind = "mount" ->
                         \* autoSelectFirst
                         /\ IF data # {}
                              THEN /\ selectedMenuId' = FirstMenu(data)
                                   /\ emitted' = Select(FirstMenu(data), FALSE)
                              ELSE UNCHANGED <<selectedMenuId, emitted>>
                         /\ UNCHANGED expandedMenuIds
                    [] kind \in {"refreshTree", "onDeleteMenu"} ->
                         /\ expandedMenuIds' = restoredExpandedIds(tasks[t].saved, 0)
                         /\ UNCHANGED <<selectedMenuId, emitted>>
                    [] kind = "onMenuFormSuccess" ->
                         IF id # 0 /\ newMenu # 0
                           THEN /\ selectedMenuId' = newMenu
                                /\ emitted' = Select(newMenu, TRUE)
                                /\ expandedMenuIds' =
                                     restoredExpandedIds(tasks[t].saved,
                                                         ParentId(id))
                           ELSE /\ expandedMenuIds' =
                                     restoredExpandedIds(tasks[t].saved, 0)
                                /\ UNCHANGED <<selectedMenuId, emitted>>
  /\ UNCHANGED <<mounted, searchKeyword, searchResults, isSearching,
                 searchTimer>>

(***************************************************************************)
(* refreshCurrentNode (exposed to the parent): getMenuDetailApi is awaited,*)
(* the node is updated in place and, when the tree holds it, emitted.      *)
(***************************************************************************)
refreshCurrentNode(t, menuId) ==
  /\ UNCHANGED <<reqVars, roleVars, pageVars>>
  /\ mounted
  /\ FreeTask(t)
  /\ tasks' = Await(t, "refreshCurrentNode", "detail", menuId, {})
  /\ pending' = [pending EXCEPT ![t] = {"getMenuDetailApi"}]
  /\ notice' = "none"
  /\ finished' = NoFinish
  /\ UNCHANGED <<mounted, treeData, loading, selectedMenuId, searchKeyword,
                 expandedMenuIds, searchResults, isSearching, searchTimer,
                 emitted>>

DetailResponse(t, ok) ==
  /\ UNCHANGED <<reqVars, roleVars, pageVars>>
  /\ tasks[t].pc = "detail"
  /\ "getMenuDetailApi" \in pending[t]
  /\ pending' = [pending EXCEPT ![t] = @ \ {"getMenuDetailApi"}]
  /\ tasks' = Finish(t)
  /\ finished' = Ended(t, ok, {})
  /\ IF ok
       THEN /\ notice' = "none"
            /\ emitted' = IF findMenuById(tasks[t].arg) # 0
                            THEN Select(findMenuById(tasks[t].arg), FALSE)
                            ELSE emitted
       ELSE /\ notice' = "refreshFailed"
            /\ UNCHANGED emitted
  /\ UNCHANGED <<mounted, treeData, loading, selectedMenuId, searchKeyword,
                 expandedMenuIds, searchResults, isSearching, searchTimer>>

(***************************************************************************)
(* The menu tree before onMounted; the request client is behind the api    *)
(* functions and the role component is not on this screen.                 *)
(***************************************************************************)
RequestClientSetup ==
  /\ accessToken = Null
  /\ refreshToken = Null
  /\ isAccessChecked = FALSE
  /\ loginExpired = FALSE
  /\ loginExpiredMode = "page"
  /\ isRefreshing = FALSE
  /\ refreshTokenQueue = <<>>
  /\ reqs = [r \in Req |-> IdleSlot]
  /\ nextTok = 2
  /\ cleared = {}
  /\ lastReauth = NoReauth
  /\ lastRefresh = NoRefresh
  /\ lastError = NoError
  /\ lastToast = NoToast

InitMenu ==
  /\ RequestClientSetup
  /\ PageSetup
  /\ MenuTreeSetup
  /\ RoleTreeSetup

NextMenu ==
  \/ \E t \in Task : Mount(t)
  \/ \E menu \in Menus : toggleNodeExpanded(menu)
  \/ \E menu \in Menus : onMenuSelect(menu)
  \/ \E newVal \in 0..MaxKey : SetKeyword(newVal)
  \/ \E t \in Task : SearchTimerFires(t)
  \/ \E t \in Task, ok \in BOOLEAN : 
       \E results \in SearchHits(tasks[t].arg) : SearchResponse(t, ok, results)
  \/ \E t \in Task : refreshTree(t)
  \/ \E t \in Task, id \in 0..MaxMenu : onMenuFormSuccess(t, id)
  \/ \E t \in Task, menu \in Menus : onDeleteMenu(t, menu)
  \/ \E t \in Task : DeleteCancelled(t)
  \/ \E t \in Task : DeleteConfirmed(t)
  \/ \E t \in Task, ok \in BOOLEAN : DeleteResponse(t, ok)
  \/ \E t \in Task, ok \in BOOLEAN, data \in MenuTrees : TreeResponse(t, ok, data)
  \/ \E t \in Task, menuId \in Menus : refreshCurrentNode(t, menuId)
  \/ \E t \in Task, ok \in BOOLEAN : DetailResponse(t, ok)

SpecMenu == InitMenu /\ [][NextMenu]_vars

(***************************************************************************)
(* The role-permission component.  treeData is the nested menu tree the    *)
(* backend returned for the role: a sequence of nodes [id, children].      *)
(* A tree over the menus 1..MaxRoleMenu is given by the parent of each     *)
(* menu (0: a root); the children of a node are in the order of their ids. *)
(***************************************************************************)
RoleParents ==
  {p \in [RoleMenus -> 0..(MaxRoleMenu - 1)] : \A i \in RoleMenus : p[i] < i}

RECURSIVE MenuNode(_, _), MenuNodes(_, _)
MenuNode(p, i) ==
  [id |-> i, children |-> MenuNodes(p, {c \in RoleMenus : p[c] = i})]
MenuNodes(p, S) ==
  IF S = {} THEN <<>>
  ELSE <<MenuNode(p, Min(S))>> \o MenuNodes(p, S \ {Min(S)})

RoleTrees == {MenuNodes(p, {c \in RoleMenus : p[c] = 0}) : p \in RoleParents}

(***************************************************************************)
(* getDescendantMenuIds: findAndCollect looks for the menu and             *)
(* collectDescendants pushes the ids below it.                             *)
(***************************************************************************)
RECURSIVE collectDescendants(_)
collectDescendants(nodes) ==
  IF nodes = <<>> THEN <<>>
  ELSE <<Head(nodes).id>> \o collectDescendants(Head(nodes).children)
         \o collectDescendants(Tail(nodes))

RECURSIVE findAndCollect(_, _)
findAndCollect(nodes, menuId) ==
  IF nodes = <<>> THEN <<>>
  ELSE (IF Head(nodes).id = menuId
          THEN collectDescendants(Head(nodes).children)
          ELSE findAndCollect(Head(nodes).children, menuId))
       \o findAndCollect(Tail(nodes), menuId)

getDescendantMenuIds(tree, menuId) == findAndCollect(tree, menuId)

(***************************************************************************)
(* getAncestorMenuIds: findParent pushes the parent of the target and goes *)
(* on from the root with the parent as the target.  parentId 0: undefined. *)
(***************************************************************************)
RECURSIVE findParent_ParentOnly(_, _, _, _)
\* mutant: the search does not go on above the parent
findParent_ParentOnly(tree, nodes, targetId, parentId) ==
  IF nodes = <<>> THEN [found |-> FALSE, ancestors |-> <<>>]
  ELSE IF Head(nodes).id = targetId
    THEN [found |-> TRUE,
          ancestors |-> IF parentId # 0 THEN <<parentId>> ELSE <<>>]
    ELSE LET below == findParent_ParentOnly(tree, Head(nodes).children,
                                            targetId, Head(nodes).id)
         IN IF below.found THEN below
            ELSE findParent_ParentOnly(tree, Tail(nodes), targetId, parentId)

RECURSIVE findParent(_, _, _, _)
findParent(tree, nodes, targetId, parentId) ==
  IF nodes = <<>> THEN [found |-> FALSE, ancestors |-> <<>>]
  ELSE IF Head(nodes).id = targetId
    THEN [found |-> TRUE,
          ancestors |-> IF parentId # 0
                          THEN <<parentId>>
                               \o findParent(tree, tree, parentId, 0).ancestors
                          ELSE <<>>]
    ELSE LET below == findParent(tree, Head(nodes).children, targetId,
                                 Head(nodes).id)
         IN IF below.found THEN below
            ELSE findParent(tree, Tail(nodes), targetId, parentId)

getAncestorMenuIds(tree, menuId) == findParent(tree, tree, menuId, 0).ancestors

Ids(seq) == {seq[i] : i \in 1..Len(seq)}

\* mutant: no ancestor is found to have a selected descendant
hasSelectedDescendants_Never(tree, selected, menuId) == FALSE

hasSelectedDescendants(tree, selected, menuId) ==
  \E id \in Ids(getDescendantMenuIds(tree, menuId)) : id \in selected

\* ancestors.forEach: an ancestor with no selected descendant left is removed
RECURSIVE dropAncestors(_, _, _)
dropAncestors(tree, selected, ancestors) ==
  IF ancestors = <<>> THEN selected
  ELSE dropAncestors(tree,
         IF hasSelectedDescendants(tree, selected, Head(ancestors))
           THEN selected ELSE selected \ {Head(ancestors)},
         Tail(ancestors))

\* the selectedMenuIds toggleMenu leaves
toggledMenuIds(tree, selected, menuId) ==
  IF menuId \in selected
    THEN dropAncestors(tree,
           (selected \ {menuId}) \ Ids(getDescendantMenuIds(tree, menuId)),
           getAncestorMenuIds(tree, menuId))
    ELSE selected \cup {menuId} \cup Ids(getDescendantMenuIds(tree, menuId))
           \cup Ids(getAncestorMenuIds(tree, menuId))

\* currentMenuPermissions, as far as the template renders it: the permission
\* rows are rendered when a role is shown, the tree is not loading, a menu is
\* selected and its permissions are not loading
RenderedPermissions(r, ld, sm, lp, cache) ==
  IF r # 0 /\ ~ld /\ sm # 0 /\ ~lp /\ sm \in DOMAIN cache THEN cache[sm] ELSE {}

RenderedNow ==
  RenderedPermissions(role, roleLoading, roleSelectedMenuId,
                      loadingPermissions, menuPermissionsCache)

\* the menu tree is on the screen
TreeShown == role # 0 /\ ~roleLoading

\* the template after the handler: a new checkbox gets
\* :checked="selectedPermissions.has(permission.id)", a checkbox that stays
\* is patched when the bound value has changed; native is the checked
\* property the browser left on the checkboxes
Paint(native) ==
  shownChecked' =
    [p \in RenderedPermissions(role', roleLoading', roleSelectedMenuId',
                               loadingPermissions', menuPermissionsCache') |->
       IF p \in RenderedNow
          /\ ((p \in selectedPermissions') <=> (p \in selectedPermissions))
         THEN native[p]
         ELSE p \in selectedPermissions']

(***************************************************************************)
(* toggleMenu, on the checkbox of a menu of the tree.                      *)
(***************************************************************************)
toggleMenu(menuId) ==
  /\ UNCHANGED <<reqVars, menuVars, pageVars>>
  /\ UNCHANGED <<role, roleLoading, saving, loadingPermissions,
                 roleExpandedMenuIds, selectedPermissions, menuPermissionsCache,
                 roleReqs, roleCalls, loadedFor>>
  /\ lastSave' = NoSave
  /\ selectedMenuIds' = toggledMenuIds(roleTreeData, selectedMenuIds, menuId)
  /\ roleSelectedMenuId' =
       IF menuId \in selectedMenuIds /\ roleSelectedMenuId = menuId
         THEN 0 ELSE roleSelectedMenuId
  /\ lastToggle' = [ran |-> TRUE, menuId |-> menuId,
                    before |-> selectedMenuIds]
  /\ UNCHANGED roleTreeData
  /\ Paint(shownChecked)

\* selectAllMenus: collectMenus adds every menu of the tree
selectAllMenus ==
  /\ UNCHANGED <<reqVars, menuVars, pageVars>>
  /\ UNCHANGED <<role, roleLoading, saving, loadingPermissions,
                 roleExpandedMenuIds, selectedPermissions, menuPermissionsCache,
                 roleReqs, roleCalls, loadedFor>>
  /\ lastSave' = NoSave
  /\ selectedMenuIds' = selectedMenuIds \cup Ids(collectDescendants(roleTreeData))
  /\ lastToggle' = NoToggle
  /\ UNCHANGED <<roleTreeData, roleSelectedMenuId>>
  /\ Paint(shownChecked)

unselectAllMenus ==
  /\ UNCHANGED <<reqVars, menuVars, pageVars>>
  /\ UNCHANGED <<role, roleLoading, saving, loadingPermissions,
                 roleExpandedMenuIds, selectedPermissions, menuPermissionsCache,
                 roleReqs, roleCalls, loadedFor>>
  /\ lastSave' = NoSave
  /\ selectedMenuIds' = {}
  /\ lastToggle' = NoToggle
  /\ UNCHANGED <<roleTreeData, roleSelectedMenuId>>
  /\ Paint(shownChecked)

(***************************************************************************)
(* The component once loadMenuTree has stored the role's tree and the      *)
(* selected_menu_ids the backend returned.                                 *)
(***************************************************************************)
InitRole ==
  /\ RequestClientSetup
  /\ PageSetup
  /\ MenuTreeSetup
  /\ roleTreeData \in RoleTrees
  /\ selectedMenuIds \in SUBSET RoleMenus
  /\ roleSelectedMenuId \in 0..MaxRoleMenu
  /\ lastToggle = NoToggle
  /\ PermissionSetup

NextRole ==
  \/ \E menuId \in RoleMenus : toggleMenu(menuId)
  \/ selectAllMenus
  \/ unselectAllMenus

SpecRole == InitRole /\ [][NextRole]_vars

(***************************************************************************)
(* The role-permission component with its loads and its save.  The backend *)
(* answers getRoleMenusApi with the menu chain 1 > 2 > .. > MaxPermMenu    *)
(* and the role's selected menu ids; menu m has the one permission m.      *)
(***************************************************************************)
Roles == 1..MaxRole
PermMenus == 1..MaxPermMenu

RECURSIVE MenuChain(_)
MenuChain(i) ==
  IF i > MaxPermMenu THEN <<>>
  ELSE <<[id |-> i, children |-> MenuChain(i + 1)]>>

\* data.menu_tree
BackendMenuTree == MenuChain(1)

\* data.permissions of a menu: their ids
PermissionsOf(menuId) == {menuId}

CachePut(cache, menuId, value) ==
  [x \in (DOMAIN cache) \cup {menuId} |-> IF x = menuId THEN value ELSE cache[x]]

\* a request of the component goes out
SendRole(api, r, menuId, body) ==
  /\ roleCalls < MaxRoleCall
  /\ roleCalls' = roleCalls + 1
  /\ roleReqs' = roleReqs \cup {[id |-> roleCalls + 1, api |-> api, role |-> r,
                                 menu |-> menuId, body |-> body]}

NoBody == [menu_ids |-> {}, permission_ids |-> {}, scope_menu_ids |-> {}]

(***************************************************************************)
(* watch(() => props.role?.id): with a role the expand state and the shown *)
(* menu are reset and loadMenuTree is called; without one the tree and the *)
(* selections are emptied.                                                 *)
(***************************************************************************)
RoleChange(r) ==
  /\ UNCHANGED <<reqVars, menuVars, pageVars>>
  /\ r # role
  /\ role' = r
  /\ roleExpandedMenuIds' = {}
  /\ roleSelectedMenuId' = 0
  /\ IF r # 0
       THEN \* loadMenuTree up to await getRoleMenusApi(props.role.id)
            /\ roleLoading' = TRUE
            /\ SendRole("getRoleMenusApi", r, 0, NoBody)
            /\ UNCHANGED <<roleTreeData, selectedMenuIds, selectedPermissions,
                           loadedFor>>
       ELSE /\ roleTreeData' = <<>>
            /\ selectedMenuIds' = {}
            /\ selectedPermissions' = {}
            /\ loadedFor' = [loadedFor EXCEPT !.tree = 0, !.perms = {}]
            /\ UNCHANGED <<roleLoading, roleReqs, roleCalls>>
  /\ lastToggle' = NoToggle
  /\ lastSave' = NoSave
  /\ UNCHANGED <<saving, loadingPermissions, menuPermissionsCache>>
  /\ Paint(shownChecked)

\* loadMenuTree after the await: the tree and the selected menus are stored,
\* the permission cache and the selected permissions are emptied and all
\* menus are expanded; an error shows a message; finally loading is reset
RoleMenusResponse(q, ok, ids) ==
  /\ UNCHANGED <<reqVars, menuVars, pageVars>>
  /\ q \in roleReqs /\ q.api = "getRoleMenusApi"
  /\ roleReqs' = roleReqs \ {q}
  /\ IF ok
       THEN /\ roleTreeData' = BackendMenuTree
            /\ selectedMenuIds' = ids
            /\ menuPermissionsCache' = <<>>
            /\ selectedPermissions' = {}
            /\ roleExpandedMenuIds' =
                 roleExpandedMenuIds \cup Ids(collectDescendants(BackendMenuTree))
            /\ loadedFor' = [tree |-> q.role, cache |-> <<>>, perms |-> {}]
       ELSE UNCHANGED <<roleTreeData, selectedMenuIds, menuPermissionsCache,
                        selectedPermissions, roleExpandedMenuIds, loadedFor>>
  /\ roleLoading' = FALSE
  /\ lastToggle' = NoToggle
  /\ lastSave' = NoSave
  /\ UNCHANGED <<role, saving, loadingPermissions, roleSelectedMenuId, roleCalls>>
  /\ Paint(shownChecked)

(***************************************************************************)
(* selectMenu: the menu is shown and loadMenuPermissions loads its         *)
(* permissions unless they are cached.                                     *)
(***************************************************************************)
selectMenu(menuId) ==
  /\ UNCHANGED <<reqVars, menuVars, pageVars>>
  /\ TreeShown
  /\ menuId \in Ids(collectDescendants(roleTreeData))
  /\ roleSelectedMenuId' = menuId
  /\ IF menuId \in DOMAIN menuPermissionsCache
       THEN UNCHANGED <<loadingPermissions, roleReqs, roleCalls>>
       ELSE /\ loadingPermissions' = TRUE
            /\ SendRole("getMenuPermissionsApi", role, menuId, NoBody)
  /\ lastToggle' = NoToggle
  /\ lastSave' = NoSave
  /\ UNCHANGED <<role, roleLoading, saving, roleExpandedMenuIds,
                 selectedPermissions, menuPermissionsCache, loadedFor,
                 roleTreeData, selectedMenuIds>>
  /\ Paint(shownChecked)

\* loadMenuPermissions after the await: the permissions are cached and the
\* checked ones are added to selectedPermissions
MenuPermissionsResponse(q, ok, checked) ==
  /\ UNCHANGED <<reqVars, menuVars, pageVars>>
  /\ q \in roleReqs /\ q.api = "getMenuPermissionsApi"
  /\ roleReqs' = roleReqs \ {q}
  /\ IF ok
       THEN /\ menuPermissionsCache' =
                 CachePut(menuPermissionsCache, q.menu, PermissionsOf(q.menu))
            /\ selectedPermissions' = selectedPermissions \cup checked
            /\ loadedFor' = [loadedFor EXCEPT
                 !.cache = CachePut(loadedFor.cache, q.menu, q.role),
                 !.perms = IF checked = {} THEN @ ELSE @ \cup {q.role}]
       ELSE UNCHANGED <<menuPermissionsCache, selectedPermissions, loadedFor>>
  /\ loadingPermissions' = FALSE
  /\ lastToggle' = NoToggle
  /\ lastSave' = NoSave
  /\ UNCHANGED <<role, roleLoading, saving, roleExpandedMenuIds, roleCalls,
                 roleTreeData, selectedMenuIds, roleSelectedMenuId>>
  /\ Paint(shownChecked)

toggleMenuExpanded(menuId) ==
  /\ UNCHANGED <<reqVars, menuVars, pageVars>>
  /\ TreeShown
  /\ menuId \in Ids(collectDescendants(roleTreeData))
  /\ roleExpandedMenuIds' = IF menuId \in roleExpandedMenuIds
                              THEN roleExpandedMenuIds \ {menuId}
                              ELSE roleExpandedMenuIds \cup {menuId}
  /\ lastToggle' = NoToggle
  /\ lastSave' = NoSave
  /\ UNCHANGED <<role, roleLoading, saving, loadingPermissions,
                 selectedPermissions, menuPermissionsCache, roleReqs, roleCalls,
                 loadedFor, roleTreeData, selectedMenuIds, roleSelectedMenuId>>
  /\ Paint(shownChecked)

\* mutant: the change event of the checkbox toggles nothing
togglePermission_RowOnly(permissionId, onCheckbox) ==
  IF onCheckbox THEN selectedPermissions
  ELSE IF permissionId \in selectedPermissions
    THEN selectedPermissions \ {permissionId}
    ELSE selectedPermissions \cup {permissionId}

\* togglePermission, from the click on the row or the change of the checkbox
togglePermission(permissionId, onCheckbox) ==
  IF permissionId \in selectedPermissions
    THEN selectedPermissions \ {permissionId}
    ELSE selectedPermissions \cup {permissionId}

\* a click on a rendered permission: on the checkbox the browser flips its
\* checked property and fires change (the click is stopped), elsewhere on the
\* row the click handler runs
PermissionClick(permissionId, onCheckbox) ==
  /\ UNCHANGED <<reqVars, menuVars, pageVars>>
  /\ permissionId \in RenderedNow
  /\ selectedPermissions' = togglePermission(permissionId, onCheckbox)
  /\ lastToggle' = NoToggle
  /\ lastSave' = NoSave
  /\ UNCHANGED <<role, roleLoading, saving, loadingPermissions,
                 roleExpandedMenuIds, menuPermissionsCache, roleReqs, roleCalls,
                 loadedFor, roleTreeData, selectedMenuIds, roleSelectedMenuId>>
  /\ Paint(IF onCheckbox
             THEN [shownChecked EXCEPT ![permissionId] = ~@]
             ELSE shownChecked)

\* selectPermissionsByType and unselectPermissionsByType, all permissions
\* being of one type
selectPermissionsByType(select) ==
  /\ UNCHANGED <<reqVars, menuVars, pageVars>>
  /\ TreeShown /\ roleSelectedMenuId # 0
  /\ LET permissions ==
           IF roleSelectedMenuId \in DOMAIN menuPermissionsCache
             THEN menuPermissionsCache[roleSelectedMenuId] ELSE {}
     IN selectedPermissions' = IF select
                                 THEN selectedPermissions \cup permissions
                                 ELSE selectedPermissions \ permissions
  /\ lastToggle' = NoToggle
  /\ lastSave' = NoSave
  /\ UNCHANGED <<role, roleLoading, saving, loadingPermissions,
                 roleExpandedMenuIds, menuPermissionsCache, roleReqs, roleCalls,
                 loadedFor, roleTreeData, selectedMenuIds, roleSelectedMenuId>>
  /\ Paint(shownChecked)

(***************************************************************************)
(* saveSelection: without a role a warning; otherwise the selected menus,  *)
(* the selected permissions and the keys of the permission cache are sent. *)
(***************************************************************************)
\* mutant: the update scope is the selected menus
SaveBody_ScopeSelected(menus, permissions, cache) ==
  [menu_ids |-> menus, permission_ids |-> permissions, scope_menu_ids |-> menus]

SaveBody(menus, permissions, cache) ==
  [menu_ids |-> menus, permission_ids |-> permissions,
   scope_menu_ids |-> DOMAIN cache]

SaveRecord(sent) ==
  [ran |-> TRUE, sent |-> sent, role |-> role,
   body |-> SaveBody(selectedMenuIds, selectedPermissions, menuPermissionsCache),
   menus |-> selectedMenuIds, permissions |-> selectedPermissions,
   cached |-> DOMAIN menuPermissionsCache,
   loadedFor |-> loadedFor]

saveSelection ==
  /\ UNCHANGED <<reqVars, menuVars, pageVars>>
  /\ ~saving
  /\ IF role = 0
       THEN /\ lastSave' = SaveRecord(FALSE)
            /\ UNCHANGED <<saving, roleReqs, roleCalls>>
       ELSE /\ saving' = TRUE
            /\ SendRole("updateRoleMenusPermissionsApi", role, 0,
                 SaveBody(selectedMenuIds, selectedPermissions,
                          menuPermissionsCache))
            /\ lastSave' = SaveRecord(TRUE)
  /\ lastToggle' = NoToggle
  /\ UNCHANGED <<role, roleLoading, loadingPermissions, roleExpandedMenuIds,
                 selectedPermissions, menuPermissionsCache, loadedFor,
                 roleTreeData, selectedMenuIds, roleSelectedMenuId>>
  /\ Paint(shownChecked)

\* saveSelection after the await: a message either way; finally saving is reset
SaveResponse(q, ok) ==
  /\ UNCHANGED <<reqVars, menuVars, pageVars>>
  /\ q \in roleReqs /\ q.api = "updateRoleMenusPermissionsApi"
  /\ roleReqs' = roleReqs \ {q}
  /\ saving' = FALSE
  /\ lastToggle' = NoToggle
  /\ lastSave' = NoSave
  /\ UNCHANGED <<role, roleLoading, loadingPermissions, roleExpandedMenuIds,
                 selectedPermissions, menuPermissionsCache, roleCalls, loadedFor,
                 roleTreeData, selectedMenuIds, roleSelectedMenuId>>
  /\ Paint(shownChecked)

\* the menu checkboxes of the tree on the screen
MenuCheckbox(menuId) ==
  /\ TreeShown
  /\ menuId \in Ids(collectDescendants(roleTreeData))
  /\ toggleMenu(menuId)

InitPerm ==
  /\ RequestClientSetup
  /\ PageSetup
  /\ MenuTreeSetup
  /\ RoleTreeSetup

NextPerm ==
  \/ \E r \in 0..MaxRole : RoleChange(r)
  \/ \E q \in roleReqs, ok \in BOOLEAN, ids \in SUBSET PermMenus :
       RoleMenusResponse(q, ok, ids)
  \/ \E menuId \in PermMenus : selectMenu(menuId)
  \/ \E q \in roleReqs, ok \in BOOLEAN :
       \E checked \in SUBSET PermissionsOf(q.menu) :
         MenuPermissionsResponse(q, ok, checked)
  \/ \E menuId \in PermMenus : toggleMenuExpanded(menuId)
  \/ \E p \in PermMenus, onCheckbox \in BOOLEAN : PermissionClick(p, onCheckbox)
  \/ \E select \in BOOLEAN : selectPermissionsByType(select)
  \/ saveSelection
  \/ \E q \in roleReqs, ok \in BOOLEAN : SaveResponse(q, ok)
  \/ \E menuId \in PermMenus : MenuCheckbox(menuId)

SpecPerm == InitPerm /\ [][NextPerm]_vars

(***************************************************************************)
(* The scheduler job form modal (unnamed/part_004).  The form itself       *)
(* (useVbenForm with the schema of ../data) is a store of field values:    *)
(* setValues writes them and getValues reads them back.                    *)
(***************************************************************************)
Units == {"seconds", "minutes", "hours", "days"}
TriggerTypes == {"cron", "interval", "date"}

\* The interval lengths of the jobs: up to MaxPart days, hours, minutes and
\* seconds, not all zero.
IntervalSeconds ==
  {a * 86400 + b * 3600 + c * 60 + d :
     a \in 0..MaxPart, b \in 0..MaxPart, c \in 0..MaxPart, d \in 0..MaxPart}
  \ {0}

Jobs ==
  {[id |-> 1, trigger_type |-> "interval", interval_seconds |-> x] :
     x \in IntervalSeconds}
  \cup {[id |-> 1, trigger_type |-> t, interval_seconds |-> 0] :
          t \in TriggerTypes}

\* setFormValuesWithConversion: the values written to the form for a job.
setFormValuesWithConversion(data) ==
  IF data.trigger_type = "interval" /\ data.interval_seconds # 0
    THEN LET seconds == data.interval_seconds IN
         IF seconds % 86400 = 0
           THEN [trigger_type |-> data.trigger_type,
                 interval_seconds |-> seconds \div 86400,
                 interval_unit |-> "days"]
         ELSE IF seconds % 3600 = 0
           THEN [trigger_type |-> data.trigger_type,
                 interval_seconds |-> seconds \div 3600,
                 interval_unit |-> "hours"]
         ELSE IF seconds % 60 = 0
           THEN [trigger_type |-> data.trigger_type,
                 interval_seconds |-> seconds \div 60,
                 interval_unit |-> "minutes"]
         ELSE [trigger_type |-> data.trigger_type,
               interval_seconds |-> seconds,
               interval_unit |-> "seconds"]
    ELSE [trigger_type |-> data.trigger_type,
          interval_seconds |-> data.interval_seconds,
          interval_unit |-> "seconds"]

toSeconds_DaysAsHours(unit, value) ==
  IF unit = "minutes" THEN value * 60
  ELSE IF unit \in {"hours", "days"} THEN value * 3600
  ELSE value

\* onConfirm, the conversion of the entered interval to seconds.
toSeconds(unit, value) ==
  IF unit = "minutes" THEN value * 60
  ELSE IF unit = "hours" THEN value * 3600
  ELSE IF unit = "days" THEN value * 86400
  ELSE value

\* onConfirm, the data sent: interval_seconds converted, interval_unit removed.
SubmitData(values) ==
  [trigger_type |-> values.trigger_type,
   interval_seconds |->
     IF values.trigger_type = "interval" /\ values.interval_seconds # 0
       THEN toSeconds(values.interval_unit, values.interval_seconds)
       ELSE values.interval_seconds]

\* onOpenChange(true)
OpenJob(data) ==
  /\ jobModal = "closed"
  /\ jobModal' = "open"
  /\ formData' = data
  /\ IF data # NoJob
       THEN /\ triggerType' = data.trigger_type
            /\ formValues' = setFormValuesWithConversion(data)
       ELSE /\ triggerType' = "cron"
            /\ formValues' = [NoValues EXCEPT !.interval_unit = "seconds"]
  /\ jobEdited' = FALSE
  /\ submitted' = NoSubmit
  /\ UNCHANGED <<reqVars, menuVars, roleVars, logVars>>

\* the user closes the modal without submitting
CloseJob ==
  /\ jobModal = "open"
  /\ jobModal' = "closed"
  /\ submitted' = NoSubmit
  /\ UNCHANGED <<formData, triggerType, formValues, jobEdited>>
  /\ UNCHANGED <<reqVars, menuVars, roleVars, logVars>>

\* resetForm
resetForm ==
  /\ jobModal = "open"
  /\ formValues' = IF formData # NoJob
                     THEN setFormValuesWithConversion(formData)
                     ELSE NoValues
  /\ jobEdited' = FALSE
  /\ submitted' = NoSubmit
  /\ UNCHANGED <<jobModal, formData, triggerType>>
  /\ UNCHANGED <<reqVars, menuVars, roleVars, logVars>>

\* the user picks a trigger type: the field changes and the form emits
\* trigger-type-change (handleTriggerTypeChange)
handleTriggerTypeChange(value) ==
  /\ jobModal = "open"
  /\ value # formValues.trigger_type
  /\ triggerType' = value
  /\ formValues' = [formValues EXCEPT !.trigger_type = value]
  /\ jobEdited' = TRUE
  /\ submitted' = NoSubmit
  /\ UNCHANGED <<jobModal, formData>>
  /\ UNCHANGED <<reqVars, menuVars, roleVars, logVars>>

\* the user enters an interval and picks its unit
EditInterval(value, unit) ==
  /\ jobModal = "open"
  /\ formValues.trigger_type = "interval"
  /\ <<value, unit>> # <<formValues.interval_seconds, formValues.interval_unit>>
  /\ formValues' = [formValues EXCEPT !.interval_seconds = value,
                                      !.interval_unit = unit]
  /\ jobEdited' = TRUE
  /\ submitted' = NoSubmit
  /\ UNCHANGED <<jobModal, formData, triggerType>>
  /\ UNCHANGED <<reqVars, menuVars, roleVars, logVars>>

\* onConfirm up to the request
onConfirm(valid) ==
  /\ jobModal = "open"
  /\ IF valid
       THEN /\ jobModal' = "locked"
            /\ submitted' = [ran |-> TRUE, sent |-> TRUE,
                             api |-> IF formData.id # 0 THEN "update"
                                                        ELSE "create",
                             job |-> formData, edited |-> jobEdited,
                             data |-> SubmitData(formValues)]
       ELSE /\ jobModal' = "open"
            /\ submitted' = [ran |-> TRUE, sent |-> FALSE]
  /\ UNCHANGED <<formData, triggerType, formValues, jobEdited>>
  /\ UNCHANGED <<reqVars, menuVars, roleVars, logVars>>

\* onConfirm after the request: close on success, unlock in both cases
SubmitResponse(ok) ==
  /\ jobModal = "locked"
  /\ jobModal' = IF ok THEN "closed" ELSE "open"
  /\ submitted' = NoSubmit
  /\ UNCHANGED <<formData, triggerType, formValues, jobEdited>>
  /\ UNCHANGED <<reqVars, menuVars, roleVars, logVars>>

InitJob ==
  /\ RequestClientSetup
  /\ MenuTreeSetup
  /\ RoleTreeSetup
  /\ PageSetup

NextJob ==
  \/ \E data \in Jobs \cup {NoJob} : OpenJob(data)
  \/ CloseJob
  \/ resetForm
  \/ \E value \in TriggerTypes : handleTriggerTypeChange(value)
  \/ \E value \in 1..MaxPart, unit \in Units \cup {"none"} :
       EditInterval(value, unit)
  \/ \E valid \in BOOLEAN : onConfirm(valid)
  \/ \E ok \in BOOLEAN : SubmitResponse(ok)

SpecJob == InitJob /\ [][NextJob]_vars

(***************************************************************************)
(* The operation-log page (operation-log/data.ts).  A row is its id        *)
(* 1..MaxRow.  The grid (useVbenVxeGrid) reports the checked rows through  *)
(* checkboxAll / checkboxChange and runs the proxy query on query().       *)
(***************************************************************************)
Rows == 1..MaxRow
LogTask == 1..MaxLogTask

\* the confirmation dialog of ElMessageBox covers the page while it is open
LogDialogOpen == \E t \in LogTask : logTasks[t].pc = "confirm"

FreeLogTask(t) ==
  /\ logTasks[t].kind = "none"
  /\ \A x \in LogTask : x < t => logTasks[x].kind # "none"

LogEvent(kind) == [kind |-> kind]

\* gridEvents checkboxAll / checkboxChange
checkboxChange(records) ==
  /\ ~LogDialogOpen
  /\ records # selectedRows
  /\ selectedRows' = records
  /\ logEvent' = NoLogEvent
  /\ UNCHANGED <<logTasks, logPending>>
  /\ UNCHANGED <<reqVars, menuVars, roleVars, jobVars>>

\* onDelete: the confirmation dialog opens
onDelete(t, row) ==
  /\ ~LogDialogOpen
  /\ FreeLogTask(t)
  /\ logTasks' = [logTasks EXCEPT ![t] = [kind |-> "onDelete", pc |-> "confirm",
                                         ids |-> {row}]]
  /\ logEvent' = NoLogEvent
  /\ UNCHANGED <<selectedRows, logPending>>
  /\ UNCHANGED <<reqVars, menuVars, roleVars, jobVars>>

\* onBatchDelete: a warning without checked rows, else the dialog opens
onBatchDelete(t) ==
  /\ ~LogDialogOpen
  /\ FreeLogTask(t)
  /\ IF selectedRows = {}
       THEN /\ logEvent' = LogEvent("selectLogsToDelete")
            /\ UNCHANGED logTasks
       ELSE /\ logTasks' = [logTasks EXCEPT ![t] = [kind |-> "onBatchDelete",
                                                    pc |-> "confirm",
                                                    ids |-> {}]]
            /\ logEvent' = NoLogEvent
  /\ UNCHANGED <<selectedRows, logPending>>
  /\ UNCHANGED <<reqVars, menuVars, roleVars, jobVars>>

LogCancelled_ClearsRows(t) ==
  /\ logTasks[t].pc = "confirm"
  /\ logTasks' = [logTasks EXCEPT ![t] = IdleLogTask]
  /\ logEvent' = LogEvent("cancel")
  /\ selectedRows' = {}
  /\ UNCHANGED logPending
  /\ UNCHANGED <<reqVars, menuVars, roleVars, jobVars>>

\* the dialog is cancelled: .catch(() => {})
LogCancelled(t) ==
  /\ logTasks[t].pc = "confirm"
  /\ logTasks' = [logTasks EXCEPT ![t] = IdleLogTask]
  /\ logEvent' = LogEvent("cancel")
  /\ UNCHANGED <<selectedRows, logPending>>
  /\ UNCHANGED <<reqVars, menuVars, roleVars, jobVars>>

\* the dialog is confirmed: the delete request is sent and awaited; the batch
\* delete reads the checked rows now
LogConfirmed(t) ==
  /\ logTasks[t].pc = "confirm"
  /\ logTasks' = [logTasks EXCEPT ![t].pc = "delete",
                    ![t].ids = IF logTasks[t].kind = "onBatchDelete"
                                 THEN selectedRows ELSE @]
  /\ logPending' = [logPending EXCEPT ![t] =
                      IF logTasks[t].kind = "onBatchDelete"
                        THEN {"batchDeleteOperationLogApi"}
                        ELSE {"deleteOperationLogApi"}]
  /\ logEvent' = LogEvent("confirm")
  /\ UNCHANGED selectedRows
  /\ UNCHANGED <<reqVars, menuVars, roleVars, jobVars>>

refreshGrid_Nothing(t) == [logPending EXCEPT ![t] = {}]

\* refreshGrid: gridApi.query() runs the proxy query, getOperationLogListApi
refreshGrid(t) == [logPending EXCEPT ![t] = {"getOperationLogListApi"}]

\* the answer to the delete request: on success the toast, for the batch
\* delete the checked rows are emptied, and refreshGrid; on an error the toast
LogDeleteResponse(t, ok) ==
  /\ logTasks[t].pc = "delete"
  /\ IF ok
       THEN /\ logEvent' = LogEvent("deleteSuccess")
            /\ selectedRows' = IF logTasks[t].kind = "onBatchDelete"
                                 THEN {} ELSE selectedRows
            /\ logPending' = refreshGrid(t)
            /\ logTasks' = [logTasks EXCEPT ![t].pc = "query"]
       ELSE /\ logEvent' = LogEvent("deleteError")
            /\ logPending' = [logPending EXCEPT ![t] = {}]
            /\ logTasks' = [logTasks EXCEPT ![t] = IdleLogTask]
            /\ UNCHANGED selectedRows
  /\ UNCHANGED <<reqVars, menuVars, roleVars, jobVars>>

\* the answer to the grid's query
LogQueryResponse(t) ==
  /\ logTasks[t].pc = "query"
  /\ logPending' = [logPending EXCEPT ![t] = {}]
  /\ logTasks' = [logTasks EXCEPT ![t] = IdleLogTask]
  /\ logEvent' = NoLogEvent
  /\ UNCHANGED selectedRows
  /\ UNCHANGED <<reqVars, menuVars, roleVars, jobVars>>

NextLog ==
  \/ \E records \in SUBSET Rows : checkboxChange(records)
  \/ \E t \in LogTask, row \in Rows : onDelete(t, row)
  \/ \E t \in LogTask : onBatchDelete(t)
  \/ \E t \in LogTask : LogCancelled(t)
  \/ \E t \in LogTask : LogConfirmed(t)
  \/ \E t \in LogTask, ok \in BOOLEAN : LogDeleteResponse(t, ok)
  \/ \E t \in LogTask : LogQueryResponse(t)

(***************************************************************************)
(* The form modal of the menu tree (menu-tree.vue, second component):      *)
(* onSubmit awaits createMenuApi; a success is emitted to onMenuFormSuccess,*)
(* an error only shows createError.                                        *)
(***************************************************************************)
onSubmitRejected ==
  /\ mounted /\ ~DialogOpen
  /\ notice' = "createError"
  /\ finished' = NoFinish
  /\ UNCHANGED <<mounted, treeData, loading, selectedMenuId, searchKeyword,
                 expandedMenuIds, searchResults, isSearching, searchTimer,
                 tasks, pending, emitted>>
  /\ UNCHANGED <<reqVars, roleVars, pageVars>>

(***************************************************************************)
(* The two pages with delete dialogs.  A session is on one of them: the    *)
(* operation-log page is used while the menu page is not mounted, and the  *)
(* menu page while the operation-log page is in its initial state.         *)
(***************************************************************************)
MenuPage == LogPageSetup /\ (NextMenu \/ onSubmitRejected)

LogPage == ~mounted /\ NextLog

NextPages == MenuPage \/ LogPage

SpecPages == InitMenu /\ [][NextPages]_vars

(***************************************************************************)
(* Properties of the request client.                                       *)
(***************************************************************************)
RECURSIVE FirstNonEmpty(_)
FirstNonEmpty(texts) ==
  IF texts = <<>> THEN ""
  ELSE IF Head(texts) # "" THEN Head(texts)
  ELSE FirstNonEmpty(Tail(texts))

StatusDefault(status) ==
  CASE status = 429 -> Msg429
    [] status = 403 -> Msg403
    [] status = 401 -> Msg401
    [] OTHER -> ""

PayloadText(data) ==
  FirstNonEmpty(<<data.message, data.error, data.detail, data.msg>>)

\* C2: the text of the toast is the first non-empty of the payload's message,
\* error, detail and msg, the message passed in, and the default of the status
\* (429, 403, 401); a toast is shown exactly when that text is non-empty, and
\* never more than one.
C2_ToastPriority ==
  lastToast.ran =>
    LET chosen == FirstNonEmpty(<<PayloadText(lastToast.data), lastToast.msg,
                                  StatusDefault(lastToast.status)>>)
    IN /\ Len(lastToast.shown) <= 1
       /\ (Len(lastToast.shown) = 1) <=> (chosen # "")
       /\ chosen # "" => lastToast.shown = <<chosen>>

C2_Witness ==
  /\ lastToast.ran
  /\ lastToast.data.message = "" /\ lastToast.data.error = ""
  /\ lastToast.data.detail # "" /\ lastToast.data.msg # ""
  /\ lastToast.msg # ""
  /\ lastToast.shown = <<lastToast.data.detail>>

C5_AuthorizationHeader ==
  \A r \in Req :
    reqs[r].st = "sent" =>
      /\ reqs[r].auth =
           IF reqs[r].tok[1] = "string" /\ reqs[r].tok[2] # 0
             THEN <<"Bearer", reqs[r].tok[2]>> ELSE Null
      /\ reqs[r].auth # Null => reqs[r].auth[2] \notin reqs[r].clr

C5_Witness ==
  \E r \in Req :
    /\ reqs[r].st = "sent"
    /\ reqs[r].clr # {}
    /\ reqs[r].auth # Null

\* C6: doReAuthenticate leaves the stored access token null, and when neither
\* an access token nor a refresh token was held it calls no logout and does
\* not set the login-expired flag.
C6_ReauthClearsToken ==
  lastReauth.ran =>
    /\ lastReauth.tokenAfter = Null
    /\ ~lastReauth.had => lastReauth.logouts = 0 /\ ~lastReauth.expiredSet

C6_Witness ==
  /\ lastReauth.ran /\ ~lastReauth.had
  /\ accessToken = Null /\ ~loginExpired
  /\ \A r \in Req : reqs[r].st # "reauth"

\* C7: when a token was held, doReAuthenticate either sets loginExpired and
\* calls no logout (mode 'modal' and access checked) or calls logout exactly
\* once and does not set loginExpired.
C7_ModalOrLogout ==
  lastReauth.ran /\ lastReauth.had =>
    IF lastReauth.mode = "modal" /\ lastReauth.checked
      THEN lastReauth.expiredSet /\ lastReauth.logouts = 0
      ELSE ~lastReauth.expiredSet /\ lastReauth.logouts = 1

C7_Witness ==
  /\ lastReauth.ran /\ lastReauth.had
  /\ lastReauth.mode = "modal" /\ lastReauth.checked
  /\ loginExpired
  /\ \A r \in Req : reqs[r].st # "reauth"

\* C8: after a successful refresh whose response holds the new token, as a
\* string or as the accessToken of an object, the stored access token is that
\* non-empty token and doRefreshToken returned it.
TokenOfResponse(data) ==
  IF data.type = "string" THEN data.value
  ELSE IF data.type = "object" THEN data.accessToken
  ELSE Undef

C8_BothFormats ==
  lastRefresh.outcome = "return" /\ Truthy(TokenOfResponse(lastRefresh.data)) =>
    /\ lastRefresh.stored = TokenOfResponse(lastRefresh.data)
    /\ lastRefresh.result = TokenOfResponse(lastRefresh.data)

\* C9: without a stored refresh token doRefreshToken sends no refresh request,
\* runs doReAuthenticate and throws; it returns no token.
C9_MissingRefreshToken ==
  lastRefresh.ran /\ ~lastRefresh.had =>
    /\ ~lastRefresh.sent
    /\ lastRefresh.reauth
    /\ (lastError.ran /\ ~lastError.retry /\ ~lastError.hadRefresh
          /\ lastError.status = 401 /\ lastError.did = "reauth") => lastReauth.ran
    /\ lastRefresh.outcome = "throw" => lastReauth.ran
    /\ lastRefresh.outcome \in {"pending", "throw"}
    /\ lastRefresh.result = Undef
    /\ lastRefresh.outcome = "pending" =>
         \E r \in Req : reqs[r].st = "reauth" /\ reqs[r].k = "missing"
    /\ \A r \in Req : reqs[r].st # "refreshing"

C9_Witness ==
  /\ lastRefresh.ran /\ ~lastRefresh.had
  /\ lastRefresh.outcome = "throw"
  /\ lastReauth.ran

(***************************************************************************)
(* Properties of the menu-tree component.                                  *)
(***************************************************************************)
Apis == {"getAllMenuTreeApi", "searchMenuApi", "deleteMenuApi", "getMenuDetailApi"}

\* the requests of the component that are in flight
InFlight == {q \in Task \X Apis : q[2] \in pending[q[1]]}

\* the request a handler invocation waits for at its await
AwaitedApi(pc) ==
  CASE pc = "tree" -> {"getAllMenuTreeApi"}
    [] pc = "search" -> {"searchMenuApi"}
    [] pc = "delete" -> {"deleteMenuApi"}
    [] pc = "detail" -> {"getMenuDetailApi"}
    [] OTHER -> {}

\* C1 as stated: no two requests started by the menu tree are ever in flight
\* at the same time.
C1_OneRequestInFlight == Cardinality(InFlight) <= 1

\* C1 amended: one handler invocation awaits its requests one after another,
\* so it never has two requests in flight: the request in flight is the one
\* the invocation is waiting for (onDeleteMenu sends nothing while the dialog
\* is open and fetches the tree only after the delete has been answered).
C1_SequentialPerInvocation ==
  \A t \in Task :
    /\ Cardinality(pending[t]) <= 1
    /\ pending[t] = AwaitedApi(tasks[t].pc)

C1_Witness ==
  \E t, u \in Task :
    /\ t # u
    /\ tasks[t].kind = "onDeleteMenu" /\ tasks[t].pc = "tree"
    /\ pending[t] = {"getAllMenuTreeApi"}
    /\ pending[u] = {"searchMenuApi"}

(***************************************************************************)
(* Properties of the role-permission tree.  The descendants and ancestors  *)
(* of a menu are read off the edges of the tree.                           *)
(***************************************************************************)
RECURSIVE TreeEdges(_)
TreeEdges(nodes) ==
  IF nodes = <<>> THEN {}
  ELSE {<<Head(nodes).id, Head(nodes).children[i].id>> :
          i \in 1..Len(Head(nodes).children)}
       \cup TreeEdges(Head(nodes).children) \cup TreeEdges(Tail(nodes))

RECURSIVE AncestorsOf(_, _)
AncestorsOf(E, m) ==
  LET ps == {e[1] : e \in {x \in E : x[2] = m}}
  IN ps \cup UNION {AncestorsOf(E, q) : q \in ps}

DescendantsOf(E, m) == {d \in RoleMenus : m \in AncestorsOf(E, d)}

\* C10: toggleMenu on a menu that is not selected adds the menu, every
\* descendant and every ancestor of it to selectedMenuIds and removes nothing.
C10_CascadingSelect ==
  lastToggle.ran /\ lastToggle.menuId \notin lastToggle.before =>
    LET E == TreeEdges(roleTreeData)
        m == lastToggle.menuId
    IN /\ m \in selectedMenuIds
       /\ DescendantsOf(E, m) \subseteq selectedMenuIds
       /\ AncestorsOf(E, m) \subseteq selectedMenuIds
       /\ lastToggle.before \subseteq selectedMenuIds

C10_Witness ==
  LET E == TreeEdges(roleTreeData)
      m == IF lastToggle.ran THEN lastToggle.menuId ELSE 0
  IN /\ lastToggle.ran
     /\ m \notin lastToggle.before
     /\ Cardinality(AncestorsOf(E, m)) >= 2
     /\ DescendantsOf(E, m) # {}
     /\ AncestorsOf(E, m) \cap lastToggle.before = {}
     /\ lastToggle.before # {}

\* C11: toggleMenu on a selected menu removes the menu and every descendant of
\* it; an ancestor that was selected stays selected exactly when it still has a
\* selected descendant after the removals below it; every menu outside the
\* subtree and the ancestor chain keeps its selection state.
C11_CascadingDeselect ==
  lastToggle.ran /\ lastToggle.menuId \in lastToggle.before =>
    LET E == TreeEdges(roleTreeData)
        m == lastToggle.menuId
    IN /\ m \notin selectedMenuIds
       /\ DescendantsOf(E, m) \cap selectedMenuIds = {}
       /\ \A a \in AncestorsOf(E, m) :
            a \in selectedMenuIds <=>
              /\ a \in lastToggle.before
              /\ DescendantsOf(E, a) \cap selectedMenuIds # {}
       /\ \A x \in RoleMenus \ ({m} \cup DescendantsOf(E, m) \cup AncestorsOf(E, m)) :
            x \in selectedMenuIds <=> x \in lastToggle.before

C11_Witness ==
  LET E == TreeEdges(roleTreeData)
      m == IF lastToggle.ran THEN lastToggle.menuId ELSE 0
  IN /\ lastToggle.ran
     /\ m \in lastToggle.before
     /\ \E a, b \in AncestorsOf(E, m) :
          /\ a \in lastToggle.before /\ a \notin selectedMenuIds
          /\ b \in lastToggle.before /\ b \in selectedMenuIds

(***************************************************************************)
(* Properties of the role-permission component's permissions and save.     *)
(***************************************************************************)
\* C12: a rendered permission checkbox is checked exactly when its id is in
\* selectedPermissions; saveSelection with a role sends menu_ids =
\* selectedMenuIds, permission_ids = selectedPermissions and scope_menu_ids =
\* the menus whose permissions have been loaded; without a role it sends no
\* request.
C12_CheckboxesAndSave ==
  /\ DOMAIN shownChecked = RenderedNow
  /\ \A p \in RenderedNow : shownChecked[p] <=> p \in selectedPermissions
  /\ lastSave.ran =>
       IF lastSave.role = 0
         THEN /\ ~lastSave.sent
              /\ \A q \in roleReqs : q.api # "updateRoleMenusPermissionsApi"
         ELSE /\ lastSave.sent
              /\ \E q \in roleReqs :
                   /\ q.api = "updateRoleMenusPermissionsApi"
                   /\ q.role = lastSave.role
                   /\ q.body.menu_ids = lastSave.menus
                   /\ q.body.permission_ids = lastSave.permissions
                   /\ q.body.scope_menu_ids = DOMAIN lastSave.loadedFor.cache

C12_Witness ==
  /\ lastSave.ran /\ lastSave.sent
  /\ lastSave.body.menu_ids # {}
  /\ lastSave.body.permission_ids # {}
  /\ lastSave.body.scope_menu_ids # {}
  /\ lastSave.body.scope_menu_ids # lastSave.body.menu_ids
  /\ \E p \in RenderedNow : shownChecked[p]

\* C19: what saveSelection sends for a role was loaded for that role (or is
\* the state before any load): the tree and the selected menus, every cached
\* permission list and every loaded permission selection come from answers
\* to requests made for the role the save is sent for.
C19_SavedStateOfShownRole ==
  lastSave.ran /\ lastSave.sent =>
    /\ lastSave.loadedFor.tree \in {0, lastSave.role}
    /\ \A m \in DOMAIN lastSave.loadedFor.cache :
         lastSave.loadedFor.cache[m] = lastSave.role
    /\ lastSave.loadedFor.perms \subseteq {lastSave.role}


(***************************************************************************)
(* Properties of the scheduler job form.                                   *)
(***************************************************************************)
UnitSize(u) ==
  IF u = "days" THEN 86400
  ELSE IF u = "hours" THEN 3600
  ELSE IF u = "minutes" THEN 60
  ELSE 1

\* the largest of days, hours, minutes and seconds that divides x
LargestUnit(x) ==
  CHOOSE u \in Units :
    /\ x % UnitSize(u) = 0
    /\ \A v \in Units : x % UnitSize(v) = 0 => UnitSize(v) <= UnitSize(u)

IntervalJob(job) == job.trigger_type = "interval" /\ job.interval_seconds > 0

\* C13: for an interval job of s seconds opened in the form and not edited,
\* the form shows the largest of days, hours, minutes and seconds that divides
\* s with the value s / unit, and a confirm submits interval_seconds = s.
C13_IntervalRoundTrip ==
  /\ (jobModal # "closed" /\ ~jobEdited /\ IntervalJob(formData)) =>
       /\ formValues.interval_unit = LargestUnit(formData.interval_seconds)
       /\ formValues.interval_seconds * UnitSize(formValues.interval_unit)
            = formData.interval_seconds
  /\ (submitted.ran /\ submitted.sent
        /\ ~submitted.edited /\ IntervalJob(submitted.job)) =>
          /\ submitted.data.trigger_type = "interval"
          /\ submitted.data.interval_seconds = submitted.job.interval_seconds

\* C13 witness: an unedited job whose interval is a whole number of days has
\* been submitted.
C13_Witness ==
  /\ submitted.ran /\ submitted.sent
  /\ ~submitted.edited
  /\ IntervalJob(submitted.job)
  /\ submitted.job.interval_seconds = MaxPart * 86400
  /\ formValues.interval_unit = "days"

(***************************************************************************)
(* Properties of the menu tree's delete, reload, create and search.        *)
(***************************************************************************)
\* the delete handler ended in the last step, after its delete had succeeded
DeleteHandlerEnded == finished.kind = "onDeleteMenu" /\ finished.pc = "tree"

ReloadEnded ==
  /\ finished.kind \in {"refreshTree", "onMenuFormSuccess", "onDeleteMenu"}
  /\ finished.pc = "tree"
  /\ finished.ok

\* the ids the reload has to leave out of the expand state
DeletedIds == IF finished.kind = "onDeleteMenu" THEN {finished.arg} ELSE {}

\* the parent of the menu that onMenuFormSuccess found in the reloaded tree
CreatedParentIds ==
  IF finished.kind = "onMenuFormSuccess" /\ finished.arg \in finished.data
     /\ ParentId(finished.arg) # 0
    THEN {ParentId(finished.arg)}
    ELSE {}

\* C15 as stated: after a reload completes, treeData is the fetched tree and
\* expandedMenuIds is the set expanded when the reload started, apart from a
\* deleted menu's id.
C15_ExpandStateKept ==
  ReloadEnded =>
    /\ treeData = finished.data
    /\ expandedMenuIds = finished.before \ DeletedIds

\* C15 amended: after a reload completes, treeData is the fetched tree and
\* expandedMenuIds is the set expanded when the reload started, without a
\* deleted menu's id and with the parent id of a created menu that the
\* reloaded tree contains.
C15_ExpandStateKeptPlusCreatedParent ==
  ReloadEnded =>
    /\ treeData = finished.data
    /\ expandedMenuIds = (finished.before \ DeletedIds) \cup CreatedParentIds

\* C15 witness: a refreshTree has completed with another tree than before,
\* and the expand state it restored is not empty.
C15_Witness ==
  /\ ReloadEnded
  /\ finished.kind = "refreshTree"
  /\ finished.before # {}
  /\ treeData = {1}

\* the reload of onMenuFormSuccess for a created menu with an id was answered
\* with a tree in the last step
CreateReloadEnded ==
  /\ finished.kind = "onMenuFormSuccess"
  /\ finished.pc = "tree"
  /\ finished.ok
  /\ finished.arg # 0

\* C16: after a create, when the reloaded tree contains the new id, the new
\* menu is selected, select(newMenu, autoEdit = true) is emitted and its
\* parent, when it has one, is expanded; when the tree does not contain it,
\* selectedMenuId is unchanged and no select event is emitted.
C16_CreatedMenuSelected ==
  [][CreateReloadEnded' =>
       IF finished'.arg \in finished'.data
         THEN /\ selectedMenuId' = finished'.arg
              /\ emitted' = [sent |-> TRUE, menu |-> finished'.arg,
                             autoEdit |-> TRUE]
              /\ ParentId(finished'.arg) # 0 =>
                   ParentId(finished'.arg) \in expandedMenuIds'
         ELSE /\ selectedMenuId' = selectedMenuId
              /\ emitted' = emitted]_vars

\* C16 witness: a created child menu was found in the reloaded tree, is
\* selected, and its parent, collapsed when the reload started, is expanded.
C16_Witness ==
  /\ CreateReloadEnded
  /\ ParentId(finished.arg) # 0
  /\ selectedMenuId = finished.arg
  /\ emitted.autoEdit
  /\ ParentId(finished.arg) \in expandedMenuIds \ finished.before

\* the search for keyword k has no answer to come: no timer is pending and no
\* searchMenuApi call for k is in flight
Settled(k) ==
  /\ searchTimer = 0
  /\ \A u \in Task : tasks[u].pc = "search" => tasks[u].arg # k

\* C20: the answer to the search for an older keyword, arriving after the
\* answer for the current keyword or after the keyword was cleared, does not
\* change searchResults and adds no id to expandedMenuIds.
C20_StaleSearchResponseDropped ==
  [][\A t \in Task :
       (/\ tasks[t].pc = "search"
        /\ tasks'[t] = DoneTask
        /\ tasks[t].arg # searchKeyword
        /\ (searchKeyword = 0 \/ Settled(searchKeyword))) =>
          /\ searchResults' = searchResults
          /\ expandedMenuIds' \subseteq expandedMenuIds]_vars

(***************************************************************************)
(* Properties of the delete dialogs and the refetches of the operation-log *)
(* page and the menu tree.                                                 *)
(***************************************************************************)
\* the requests the step sends
SentByMenu(t) == pending'[t] \ pending[t]
SentByLog(t) == logPending'[t] \ logPending[t]

\* C17: the step in which a delete of the operation-log page, a menu delete or
\* a menu create is answered with success sends the refetch of its list (the
\* grid query, the full menu tree); the step in which it is answered with an
\* error sends nothing.
C17_RefetchAfterSuccessOnly ==
  [][/\ \A t \in LogTask :
          (logTasks[t].pc = "delete" /\ logTasks'[t].pc # "delete") =>
             IF logEvent'.kind = "deleteSuccess"
               THEN SentByLog(t) = {"getOperationLogListApi"}
               ELSE \A u \in LogTask : SentByLog(u) = {}
     /\ \A t \in Task :
          (tasks[t].pc = "delete" /\ tasks'[t].pc # "delete") =>
             IF notice' = "deleteSuccess"
               THEN SentByMenu(t) = {"getAllMenuTreeApi"}
               ELSE \A u \in Task : SentByMenu(u) = {}
     /\ \A t \in Task :
          (tasks[t].kind = "none" /\ tasks'[t].kind = "onMenuFormSuccess") =>
             SentByMenu(t) = {"getAllMenuTreeApi"}
     /\ notice' = "createError" => \A u \in Task : SentByMenu(u) = {}]_vars

\* C17 witness: a batch delete of the operation-log page has succeeded and the
\* grid query is in flight.
C17_Witness ==
  /\ logEvent.kind = "deleteSuccess"
  /\ \E t \in LogTask :
       /\ logTasks[t].kind = "onBatchDelete"
       /\ logTasks[t].pc = "query"
       /\ logTasks[t].ids # {}
       /\ logPending[t] = {"getOperationLogListApi"}

DeleteApis ==
  {"deleteOperationLogApi", "batchDeleteOperationLogApi", "deleteMenuApi"}

\* C18: a delete request is sent only by the step that confirms the dialog; the
\* step that cancels it sends nothing and leaves the checked rows, the selected
\* menu, the tree and the expand state as they are; a batch delete without
\* checked rows opens no dialog and sends nothing.
C18_DeleteOnlyAfterConfirm ==
  [][/\ \A t \in LogTask :
          /\ SentByLog(t) \cap DeleteApis # {} => logTasks[t].pc = "confirm"
          /\ (logTasks[t].pc = "confirm" /\ logTasks'[t].pc = "done") =>
               /\ \A u \in LogTask : SentByLog(u) = {}
               /\ selectedRows' = selectedRows
     /\ \A t \in Task :
          /\ SentByMenu(t) \cap DeleteApis # {} => tasks[t].pc = "confirm"
          /\ (tasks[t].pc = "confirm" /\ tasks'[t].pc = "done") =>
               /\ \A u \in Task : SentByMenu(u) = {}
               /\ selectedMenuId' = selectedMenuId
               /\ treeData' = treeData
               /\ expandedMenuIds' = expandedMenuIds
     /\ logEvent'.kind = "selectLogsToDelete" =>
          /\ ~LogDialogOpen'
          /\ logTasks' = logTasks
          /\ logPending' = logPending]_vars

\* C18 witness: a batch delete dialog was cancelled in the last step with rows
\* checked.
C18_Witness ==
  /\ logEvent.kind = "cancel"
  /\ selectedRows # {}
  /\ ~LogDialogOpen

(***************************************************************************)
(* Properties of the menu tree under concurrent handlers.                  *)
(***************************************************************************)
\* C21: an id added to expandedMenuIds while a reload was in flight (it is
\* expanded when the reload is answered and was not when the reload started)
\* is still in expandedMenuIds after the reload has restored the expand state.
C21_ExpandChangesKept ==
  [][ReloadEnded' =>
       (expandedMenuIds \ finished'.before) \subseteq expandedMenuIds']_vars

\* C22: the menu of the select event emitted last is the menu selectedMenuId
\* highlights (0, undefined, when nothing is selected).
C22_EmittedIsSelected ==
  emitted.sent => emitted.menu = selectedMenuId

====
